---- MODULE Spec2Model ----
(***************************************************************************)
(* Verification model of the Region Vectorizer's control linearizer        *)
(* (Linearizer.cpp), its loop normalizer (convertToSingleExitLoop with the *)
(* LiveValueTracker) and the block indexing they rest on.                  *)
(*                                                                         *)
(* A function is a finite CFG over blocks 1..n (function order, block 1 is *)
(* the function entry).  Relay blocks created by the linearizer are the    *)
(* negative numbers: the relay block standing for real block b is -b.      *)
(***************************************************************************)
EXTENDS Integers, Sequences, FiniteSets, TLC

VARIABLES
  fn,          \* the input function: [succ, region] as read by the transform
  predRev,     \* enumeration order of predecessors(block) (use-list order)
  pc,          \* position of Linearizer::run
  li,          \* LoopInfo: [loopFor, blocks, latch, parent], loops named by header
  blockIndex,  \* Linearizer::blockIndex : block -> topological id (-1: none)
  relays,      \* Linearizer::relays as block vector: getBlock(i) = relays[i+1]
  term,        \* block -> successor operand list of its terminator
  termShape,   \* vecInfo shape of each block's terminator
  divLoops,    \* vecInfo.mDivergentLoops
  mandatory,   \* exit blocks for which vecInfo.isMandatory holds
  vecInfo0,    \* branch shapes and divergent loops as the analysis reported them
  dt,          \* DominatorTree: block -> recorded immediate dominator (0: none)
  relay,       \* relay chain: target id -> id of the next relay node
  edgeMask,    \* Linearizer edge masks: <<from, to>> -> mask value
  inst,        \* instruction id -> [op, name, parent, ops, inc]
  body,        \* block -> its instruction ids in order, terminator excluded
  valShape,    \* vecInfo shape of each instruction
  nextId,      \* id of the next instruction created
  termCond,    \* latch -> condition of the branch the normalizer created
  funcs,       \* the functions of the module, in the order of its function list
  parked,      \* instructions held by relay blocks: relay block -> ids in order
  foldLog,     \* history: the phis foldPhis replaced
  trackLog,    \* history: the live-outs trackLiveOuts handled
  promoteLog,  \* history: the calls of promoteDefinition
  cur,         \* block id processRange is at
  loopStack,   \* loops whose processLoop is active, innermost last
  xloop,       \* the normalized loop being executed (0: none)
  xpc,         \* "idle", "run" (in the loop) or "exited"
  trips,       \* lane -> iteration in which the lane leaves the scalar loop
  live,        \* lanes that have not left the loop
  iter,        \* iterations of the loop executed so far
  trk,         \* tracker phi -> lane -> value on the edge into the header
  renorm,      \* loops whose normalization step was applied once more
  shapes,      \* VectorizationInfo::shapes: value -> shape
  pinned,      \* VectorizationInfo::pinned
  lastOp,      \* history: the last call on the shape store
  shapeText,   \* rvTool: the text given with -s
  numArgs,     \* rvTool: number of arguments of the kernel
  parsed,      \* rvTool: outcome of decoding the -s option
  curMask,     \* the Mask inspected: [Pred, AVL]
  known        \* outcome of Mask::knownAllFalse on curMask

vars == <<fn, predRev, pc, li, blockIndex, relays, term, termShape, divLoops,
          mandatory, vecInfo0, dt, relay, edgeMask, inst, body, valShape,
          nextId, termCond, funcs, parked, foldLog, trackLog, promoteLog, cur, loopStack, xloop, xpc,
          trips, live, iter, trk, renorm, shapes, pinned, lastOp,
          shapeText, numArgs, parsed, curMask, known>>

----------------------------------------------------------------------------
(* Generic helpers *)

Range(s) == {s[i] : i \in 1..Len(s)}

Max(S) == CHOOSE x \in S : \A y \in S : y <= x

Min(S) == CHOOSE x \in S : \A y \in S : x <= y

RECURSIVE SetToSeqAsc(_)
SetToSeqAsc(S) ==
  IF S = {} THEN <<>> ELSE <<Min(S)>> \o SetToSeqAsc(S \ {Min(S)})

Reverse(s) == [i \in 1..Len(s) |-> s[Len(s) + 1 - i]]

RECURSIVE Flatten(_)
Flatten(ss) == IF ss = <<>> THEN <<>> ELSE ss[1] \o Flatten(Tail(ss))

----------------------------------------------------------------------------
(* Input functions.  succ[b] is the successor operand list of b's          *)
(* terminator: <<>> return, <<t>> unconditional branch, <<t, f>>           *)
(* conditional branch, a longer list a switch.  All loops are in           *)
(* simplified form: preheader, single latch, exit blocks whose             *)
(* predecessors are all in the loop.                                       *)

Catalogue ==
  << \* diamond
     [succ |-> << <<2, 3>>, <<4>>, <<4>>, <<>> >>, region |-> 1..4],
     \* triangle
     [succ |-> << <<2, 3>>, <<3>>, <<>> >>, region |-> 1..3],
     \* while loop, exit from the header
     [succ |-> << <<2>>, <<3, 4>>, <<2>>, <<>> >>, region |-> 1..4],
     \* single-block do-while loop
     [succ |-> << <<2>>, <<2, 3>>, <<>> >>, region |-> 1..3],
     \* loop with two exits (header and body), unconditional latch
     [succ |-> << <<2>>, <<3, 5>>, <<4, 6>>, <<2>>, <<7>>, <<7>>, <<>> >>,
      region |-> 1..7],
     \* loop with a header exit and a latch exit
     [succ |-> << <<2>>, <<3, 4>>, <<2, 5>>, <<6>>, <<6>>, <<>> >>,
      region |-> 1..6],
     \* loop nest: outer {2,3,4}, inner {3}
     [succ |-> << <<2>>, <<3>>, <<3, 4>>, <<2, 5>>, <<>> >>, region |-> 1..5],
     \* branch around a loop: a target is pending while the loop is entered
     [succ |-> << <<2, 6>>, <<3>>, <<3, 4>>, <<5>>, <<>>, <<5>> >>,
      region |-> 1..6],
     \* loop with an if in the body and a break in one arm
     [succ |-> << <<2>>, <<3, 4>>, <<5, 6>>, <<5>>, <<2, 7>>, <<8>>, <<8>>,
                  <<>> >>, region |-> 1..8],
     \* while loop, function order scrambled (exit, latch, header)
     [succ |-> << <<4>>, <<>>, <<4>>, <<3, 2>> >>, region |-> 1..4],
     \* loop nest whose inner loop has an exit that leaves both loops
     [succ |-> << <<2>>, <<3>>, <<4, 6>>, <<3, 5>>, <<2, 7>>, <<8>>, <<8>>,
                  <<>> >>, region |-> 1..8],
     \* nested branches with a three-way join
     [succ |-> << <<2, 3>>, <<4, 5>>, <<6>>, <<6>>, <<6>>, <<>> >>,
      region |-> 1..6],
     \* loop nest: the inner loop is skipped by a branch of the outer header and
     \* has two exits that leave both loops
     [succ |-> << <<2>>, <<3, 7>>, <<4, 9>>, <<5, 9>>, <<3, 6>>, <<7>>,
                  <<2, 8>>, <<10>>, <<10>>, <<>> >>, region |-> 1..10],
     \* diamond, function order scrambled, region entered from outside
     [succ |-> << <<5>>, <<>>, <<2>>, <<2>>, <<4, 3>> >>, region |-> 2..5],
     \* branches whose two operands name the same block, one outside the
     \* region and one inside, in front of a triangle
     [succ |-> << <<2, 2>>, <<3, 3>>, <<4, 5>>, <<5>>, <<>> >>,
      region |-> 2..5],
     \* a switch in one arm of a triangle
     [succ |-> << <<2, 3>>, <<3, 4, 4>>, <<4>>, <<>> >>, region |-> 1..4]
  >>

\* Loop nests: the catalogue's, and a loop with two inner loops in a row, the
\* first of which has two exits that leave both loops
\* loops whose preheader is not the block emitted right in front of the
\* header: block 3 is indexed between preheader 2 and header 4 and is
\* pending when the preheader is processed
Detours ==
  { [succ |-> << <<2, 3>>, <<4>>, <<7>>, <<5>>, <<4, 6>>, <<7>>, <<>> >>,
     region |-> 1..7],
    [succ |-> << <<2, 3>>, <<4>>, <<6>>, <<4, 5>>, <<6>>, <<>> >>,
     region |-> 1..6] }

\* loops with two exits whose loop-closed phis carry the same value, the
\* one the header computes
SharedLiveOuts ==
  { [succ |-> << <<2>>, <<3, 5>>, <<4, 6>>, <<2>>, <<7>>, <<7>>, <<8>>, <<>> >>,
     region |-> 1..8],
    [succ |-> << <<2>>, <<3>>, <<4, 5>>, <<2, 6>>, <<7>>, <<7>>, <<>> >>,
     region |-> 1..7] }

LoopNests ==
  { F \in {Catalogue[k] : k \in DOMAIN Catalogue} : Len(F.succ) = 10 }
  \cup
  { [succ |-> << <<2>>, <<3>>, <<4, 5>>, <<5, 11>>, <<6, 11>>, <<3, 7>>,
                <<8>>, <<8, 9>>, <<2, 10>>, <<12>>, <<12>>, <<>> >>,
     region |-> 1..12] }

NumBlocks(f) == Len(f.succ)

Blocks(f) == 1..NumBlocks(f)

----------------------------------------------------------------------------
(* CFG queries on a terminator map T : block -> successor list *)

SuccSet(T, b) == IF b \in DOMAIN T THEN Range(T[b]) ELSE {}

\* llvm::predecessors(b): one entry per terminator operand that is b, in
\* use-list order (ascending or descending block order)
predecessors(T, b, rev) ==
  LET asc == SetToSeqAsc(DOMAIN T)
      ord == IF rev THEN Reverse(asc) ELSE asc
      occ(p) == SelectSeq(T[p], LAMBDA t : t = b)
  IN Flatten([i \in 1..Len(ord) |-> [j \in 1..Len(occ(ord[i])) |-> ord[i]]])

PredSet(T, b) == {p \in DOMAIN T : b \in Range(T[p])}

\* breadth-first search from the function entry
RECURSIVE ReachFrom(_, _, _, _)
ReachFrom(T, seen, frontier, avoid) ==
  IF frontier = {} THEN seen
  ELSE LET nxt == {y \in DOMAIN T :
                     /\ y \notin seen
                     /\ y # avoid
                     /\ \E x \in frontier : y \in SuccSet(T, x)}
       IN ReachFrom(T, {y \in DOMAIN T : y \in seen \/ y \in nxt}, nxt, avoid)

\* blocks reachable from the function entry without passing through avoid
Reachable(T, avoid) == IF avoid = 1 THEN {} ELSE ReachFrom(T, {1}, {1}, avoid)

\* DominatorTree built from scratch: d dominates b
DomSet(T, b) == {d \in Reachable(T, 0) : d = b \/ b \notin Reachable(T, d)}

\* immediate dominators computed from scratch, as a map over the blocks
\* (0 for the entry and for unreachable blocks); <<b, d>> is in strict iff
\* d dominates b and is not b
ScratchIDoms(T) ==
  LET all == Reachable(T, 0)
      without == {<<d, Reachable(T, d)>> : d \in all}
      strict == {p \in {<<b, d>> : b \in all, d \in all} :
                   /\ p[1] # p[2]
                   /\ \E w \in without : w[1] = p[2] /\ p[1] \notin w[2]}
  IN [b \in DOMAIN T |->
        IF \A d \in all : <<b, d>> \notin strict THEN 0
        ELSE CHOOSE d \in all :
               /\ <<b, d>> \in strict
               /\ \A e \in all :
                    <<b, e>> \in strict => (e = d \/ <<d, e>> \in strict)]

ScratchIDom(T, b) == ScratchIDoms(T)[b]

----------------------------------------------------------------------------
(* LoopInfo of the input function (natural loops, named by their header) *)

BackEdges(T) ==
  {e \in (DOMAIN T) \X (DOMAIN T) :
      e[2] \in Range(T[e[1]]) /\ e[1] \in Reachable(T, 0)
      /\ e[2] \in DomSet(T, e[1])}

Headers(T) == {e[2] : e \in BackEdges(T)}

RECURSIVE BackReach(_, _, _, _)
BackReach(T, seen, frontier, h) ==
  IF frontier = {} THEN seen
  ELSE LET nxt == ((UNION {PredSet(T, x) : x \in frontier \ {h}}) \ seen)
       IN BackReach(T, seen \cup nxt, nxt, h)

LoopBlocksOf(T, h) ==
  LET latches == {e[1] : e \in {x \in BackEdges(T) : x[2] = h}}
  IN BackReach(T, latches \cup {h}, latches, h)

LoopInfoOf(T) ==
  LET hs == Headers(T)
      blk == [h \in hs |-> LoopBlocksOf(T, h)]
      inner(b) == {h \in hs : b \in blk[h]}
      innermost(S) == CHOOSE h \in S : \A g \in S : blk[h] \subseteq blk[g]
  IN [loopFor |-> [b \in DOMAIN T |->
                     IF inner(b) = {} THEN 0 ELSE innermost(inner(b))],
      blocks  |-> blk,
      latch   |-> [h \in hs |-> CHOOSE l \in blk[h] : h \in Range(T[l])
                                   /\ h \in DomSet(T, l)],
      parent  |-> [h \in hs |->
                     LET outer == {g \in hs : g # h /\ h \in blk[g]}
                     IN IF outer = {} THEN 0 ELSE innermost(outer)]]

Loops == DOMAIN li.blocks

\* Loop::contains(block)
contains(loop, b) == loop # 0 /\ b \in li.blocks[loop]

inRegion(b) == b \in fn.region

TermOf(f) == [b \in Blocks(f) |-> f.succ[b]]

----------------------------------------------------------------------------
(* Linearizer::buildBlockIndex *)

getIndexIn(order, b) ==
  IF \E i \in 1..Len(order) : order[i] = b
  THEN (CHOOSE i \in 1..Len(order) : order[i] = b) - 1
  ELSE -1

\* the worklist loop of buildBlockIndex; order is the relays vector so far
RECURSIVE indexStack(_, _, _, _)
indexStack(T, stack, pushedLoops, order) ==
  IF stack = <<>> THEN [pushedLoops |-> pushedLoops, order |-> order]
  ELSE
    LET block == stack[Len(stack)]
        popped == SubSeq(stack, 1, Len(stack) - 1)
        indexed(b) == getIndexIn(order, b) >= 0
        loop == li.loopFor[block]
    IN
    IF indexed(block) THEN indexStack(T, popped, pushedLoops, order)
    ELSE IF loop # 0 /\ loop \notin pushedLoops
    THEN \* first visit of this loop: push the latch, then the header's
         \* predecessors from outside the loop
      LET hp == SelectSeq(predecessors(T, loop, predRev),
                  LAMBDA p : inRegion(p) /\ ~contains(loop, p) /\ ~indexed(p))
      IN indexStack(T, popped \o <<li.latch[loop]>> \o hp,
                    pushedLoops \cup {loop}, order)
    ELSE
      LET filterLoop == IF loop # 0 /\ loop = block THEN loop ELSE 0
          deps == SelectSeq(predecessors(T, block, predRev),
                    LAMBDA p : inRegion(p) /\ ~contains(filterLoop, p)
                               /\ ~indexed(p))
      IN IF deps # <<>>
         THEN indexStack(T, stack \o deps, pushedLoops, order)
         ELSE LET order2 == Append(order, block)
                  latch == IF filterLoop # 0 THEN li.latch[filterLoop] ELSE 0
              IN indexStack(T,
                   IF filterLoop # 0 /\ getIndexIn(order2, latch) < 0
                   THEN Append(popped, latch) ELSE popped,
                   pushedLoops, order2)

\* the outer loop over the function's blocks
RECURSIVE indexBlocks(_, _, _, _)
indexBlocks(T, b, pushedLoops, order) ==
  IF b > NumBlocks(fn) THEN order
  ELSE IF ~inRegion(b) \/ getIndexIn(order, b) >= 0
  THEN indexBlocks(T, b + 1, pushedLoops, order)
  ELSE LET r == indexStack(T, <<b>>, pushedLoops, order)
       IN indexBlocks(T, b + 1, r.pushedLoops, r.order)

\* faulty variant of buildBlockIndexOrder: indexes the region in function
\* order, whatever the loops and the predecessors
buildBlockIndexOrder_functionOrder == SetToSeqAsc(fn.region)

buildBlockIndexOrder == indexBlocks(TermOf(fn), 1, {}, <<>>)

getIndex(b) == IF b \in DOMAIN blockIndex THEN blockIndex[b] ELSE -1

getBlock(i) == relays[i + 1]

getNumBlocks == Len(relays)

----------------------------------------------------------------------------

(* llvm::DominatorTree over the recorded idom map d *)

RECURSIVE Ancestors(_, _, _)
Ancestors(d, b, fuel) ==
  IF b = 0 \/ fuel = 0 THEN {} ELSE {b} \cup Ancestors(d, d[b], fuel - 1)

\* dt.dominates(a, b): a is b or an ancestor of b in the tree
dominates(d, a, b) == a \in Ancestors(d, b, Cardinality(DOMAIN d))

RECURSIVE firstCommon(_, _, _, _)
firstCommon(d, b, doms, fuel) ==
  IF b = 0 \/ fuel = 0 THEN 0
  ELSE IF b \in doms THEN b ELSE firstCommon(d, d[b], doms, fuel - 1)

\* dt.findNearestCommonDominator(a, b); 0 is nullptr
findNearestCommonDominator(d, a, b) ==
  IF a = 1 \/ b = 1 THEN 1
  ELSE IF dominates(d, b, a) THEN b
  ELSE IF dominates(d, a, b) THEN a
  ELSE firstCommon(d, d[b], Ancestors(d, a, Cardinality(DOMAIN d)),
                   Cardinality(DOMAIN d))

----------------------------------------------------------------------------
(* Relay chain.  A relay node is named by its target id; relay maps the    *)
(* ids that have a node to the id of the next node, NoRelay for none.      *)

NoRelay == 0 - 1

\* the relay block of the node for target id
relayBlockOf(id) == 0 - getBlock(id)

getRelay(ch, id) == IF id \in DOMAIN ch THEN id ELSE NoRelay

createRelay(ch, id) == IF id \in DOMAIN ch THEN ch ELSE ch @@ (id :> NoRelay)

\* faulty variant of addTargetToRelay: the new target is put in front of the
\* anchor whatever its index, so the chain is not kept in ascending order
addTargetToRelay_inFront(ch, anchor, id) ==
  IF anchor = NoRelay THEN [ch |-> createRelay(ch, id), node |-> id]
  ELSE IF anchor = id THEN [ch |-> ch, node |-> id]
  ELSE [ch |-> [createRelay(ch, id) EXCEPT ![id] = anchor], node |-> id]

\* schedule target id on the chain that starts at anchor; the result names
\* the first node of the chain that now holds both
RECURSIVE addTargetToRelay(_, _, _)
addTargetToRelay(ch, anchor, id) ==
  IF anchor = NoRelay THEN [ch |-> createRelay(ch, id), node |-> id]
  ELSE IF anchor = id THEN [ch |-> ch, node |-> id]
  ELSE IF id < anchor
  THEN LET c1 == createRelay(ch, id)
           r == addTargetToRelay(c1, c1[id], anchor)
       IN [ch |-> [r.ch EXCEPT ![id] = r.node], node |-> id]
  ELSE LET r == addTargetToRelay(ch, ch[anchor], id)
       IN [ch |-> [r.ch EXCEPT ![anchor] = r.node], node |-> anchor]

\* the node after id's node and the relay block that stood for id
advanceScheduleHead(ch, id) ==
  IF id \in DOMAIN ch
  THEN [ch |-> [i \in (DOMAIN ch) \ {id} |-> ch[i]], next |-> ch[id],
        block |-> relayBlockOf(id)]
  ELSE [ch |-> ch, next |-> NoRelay, block |-> 0]

----------------------------------------------------------------------------
(* The state the transform mutates, as one record *)

Cur ==
  [term |-> term, termShape |-> termShape, divLoops |-> divLoops, dt |-> dt,
   relay |-> relay, edgeMask |-> edgeMask, inst |-> inst, body |-> body,
   valShape |-> valShape, nextId |-> nextId, termCond |-> termCond,
   funcs |-> funcs, parked |-> parked,
   foldLog |-> foldLog, trackLog |-> trackLog, promoteLog |-> promoteLog,
   liveOutPhis |-> <<>>, newPhis |-> {}, overrun |-> "unnoticed",
   nullDeref |-> "crash",
   undefined |-> FALSE, failed |-> FALSE]

\* maskAnalysis.getExitMask(block, succIdx)
getExitMask(b, i) == <<"exitMask", b, i>>

\* maskAnalysis.getExitMask(block, target): the mask of the edge block->target
getExitMaskTo(b, to) == <<"exitMaskTo", b, to>>

\* maskAnalysis.getCombinedLoopExitMask(loop)
getCombinedLoopExitMask(loop) == <<"combined", loop>>

setEdgeMask(em, from, to, mask) ==
  [e \in (DOMAIN em) \cup {<<from, to>>} |->
     IF e = <<from, to>> THEN mask ELSE em[e]]

isConditional(s, b) == Len(s.term[b]) = 2

\* faulty variant of needsFoldingTerm: every conditional branch is folded
needsFoldingTerm_always(s, b) == isConditional(s, b)

\* faulty variant of needsFoldingTerm: a branch without a recorded shape
\* counts as uniform
needsFoldingTerm_varyingOnly(s, b) ==
  isConditional(s, b) /\ s.termShape[b] = "varying"

\* Linearizer::needsFolding(TerminatorInst&)
needsFoldingTerm(s, b) == isConditional(s, b) /\ s.termShape[b] # "uni"

----------------------------------------------------------------------------
(* Instructions.  s.inst maps an instruction id to                          *)
(*   [op, name, parent, ops, inc]: op is "def", "phi", "select" or "call",  *)
(*   name the prefix of the value's name, ops the operand values, inc the   *)
(*   incoming blocks of a phi.                                              *)
(* s.body[b] lists the ids of b's instructions in order, terminator         *)
(* excluded.  Values are tuples: <<"undef">>, <<"inst", id>>, and the mask  *)
(* values of the mask analysis.                                             *)

Undef == <<"undef">>

Null == <<"null">>

IV(id) == <<"inst", id>>

IsInst(s, v) == v[1] = "inst" /\ v[2] \in DOMAIN s.inst

isPhi(s, id) == s.inst[id].op = "phi"

\* index of the first non-phi instruction of b (Len + 1 if there is none):
\* BasicBlock::getFirstInsertionPt
firstInsertionPt(s, b) ==
  LET seq == s.body[b]
      np == {i \in 1..Len(seq) : ~isPhi(s, seq[i])}
  IN IF np = {} THEN Len(seq) + 1 ELSE Min(np)

\* the phis at the head of block b
leadingPhis(s, b) == SubSeq(s.body[b], 1, firstInsertionPt(s, b) - 1)

insertAt(seq, pos, x) ==
  SubSeq(seq, 1, pos - 1) \o <<x>> \o SubSeq(seq, pos, Len(seq))

\* create instruction rec in its parent block at position pos, with shape sh
createInst(s, rec, pos, sh) ==
  [s EXCEPT !.inst = @ @@ (s.nextId :> rec),
            !.body[rec.parent] = insertAt(@, pos, s.nextId),
            !.valShape = @ @@ (s.nextId :> sh),
            !.nextId = @ + 1]

\* replace value old by v in the operands of the instructions in users
setOperands(s, users, old, v) ==
  [s EXCEPT !.inst = [i \in DOMAIN @ |->
     IF i \in users
     THEN [@[i] EXCEPT !.ops = [k \in 1..Len(@) |->
                                  IF @[k] = old THEN v ELSE @[k]]]
     ELSE @[i]]]

\* Value::replaceAllUsesWith
replaceAllUsesWith(s, id, v) == setOperands(s, DOMAIN s.inst, IV(id), v)

\* Instruction::eraseFromParent
eraseFromParent(s, id) ==
  [s EXCEPT !.body[s.inst[id].parent] = SelectSeq(@, LAMBDA x : x # id),
            !.inst = [i \in (DOMAIN @) \ {id} |-> @[i]]]

\* PHINode::getBasicBlockIndex (1-based here, 0 when absent)
getBasicBlockIndex(s, phi, b) ==
  LET inc == s.inst[phi].inc
      at == {i \in 1..Len(inc) : inc[i] = b}
  IN IF at = {} THEN 0 ELSE Min(at)

\* PHINode::addIncoming
addIncoming(s, phi, v, b) ==
  [s EXCEPT !.inst[phi].ops = Append(@, v), !.inst[phi].inc = Append(@, b)]

\* Linearizer::getEdgeMask; Null when no mask was recorded
getEdgeMask(s, from, to) ==
  IF <<from, to>> \in DOMAIN s.edgeMask THEN s.edgeMask[<<from, to>>]
  ELSE Null

----------------------------------------------------------------------------
(* Linearizer::emitBlock *)

\* faulty variant of commonDomOf: takes the first predecessor as the new
\* immediate dominator instead of the common dominator of all of them
commonDomOf_firstPred(d, preds, acc) ==
  IF preds = <<>> THEN acc ELSE preds[1]

RECURSIVE commonDomOf(_, _, _)
commonDomOf(d, preds, acc) ==
  IF preds = <<>> THEN acc
  ELSE LET nx == IF acc = 0 THEN preds[1]
                 ELSE findNearestCommonDominator(d, acc, preds[1])
       IN IF nx = 0 THEN 0 ELSE commonDomOf(d, Tail(preds), nx)

\* branch operands naming block from now name block to
forwardBranches(T, from, to) ==
  [b \in DOMAIN T |->
     [i \in 1..Len(T[b]) |-> IF T[b][i] = from THEN to ELSE T[b][i]]]

\* faulty variant of emitBlock: the branches are forwarded and the idom is
\* set, but the relay node and its block are not freed
emitBlock_keepRelay(s, targetId) ==
  LET target == getBlock(targetId)
      adv == advanceScheduleHead(s.relay, targetId)
      T2 == forwardBranches(s.term, adv.block, target)
      common == commonDomOf(s.dt, predecessors(T2, target, predRev), 0)
  IN IF adv.block = 0 THEN [s |-> s, next |-> NoRelay]
     ELSE IF common = 0
     THEN [s |-> [s EXCEPT !.term = T2, !.failed = TRUE], next |-> adv.next]
     ELSE [s |-> [s EXCEPT !.term = T2,
                           !.dt = [s.dt EXCEPT ![target] = common]],
           next |-> adv.next]

\* faulty variant of emitBlock: the branches are forwarded and the relay is
\* freed, but the immediate dominator of the block is left as it was
emitBlock_staleIDom(s, targetId) ==
  LET target == getBlock(targetId)
      adv == advanceScheduleHead(s.relay, targetId)
      T2 == forwardBranches(s.term, adv.block, target)
  IN IF adv.block = 0 THEN [s |-> s, next |-> NoRelay]
     ELSE [s |-> [s EXCEPT !.term = T2, !.relay = adv.ch], next |-> adv.next]

\* InsertAtFront(block, inst)
InsertAtFront(blockSeq, id) == <<id>> \o blockSeq

\* the loop of emitBlock over the instructions of the relay block: the first
\* one is taken out and inserted at the front of the target, until none is
\* left
RECURSIVE moveStuck(_, _)
moveStuck(relaySeq, targetSeq) ==
  IF relaySeq = <<>> THEN targetSeq
  ELSE moveStuck(Tail(relaySeq), InsertAtFront(targetSeq, relaySeq[1]))

emitBlock(s, targetId) ==
  LET target == getBlock(targetId)
      adv == advanceScheduleHead(s.relay, targetId)
      T2 == forwardBranches(s.term, adv.block, target)
      common == commonDomOf(s.dt, predecessors(T2, target, predRev), 0)
      stuck == IF adv.block \in DOMAIN s.parked THEN s.parked[adv.block]
               ELSE <<>>
  IN IF adv.block = 0 THEN [s |-> s, next |-> NoRelay]
     ELSE IF common = 0
     THEN [s |-> [s EXCEPT !.term = T2, !.relay = adv.ch, !.failed = TRUE],
           next |-> adv.next]
     ELSE [s |-> [s EXCEPT
                    !.term = T2, !.relay = adv.ch,
                    !.dt = [s.dt EXCEPT ![target] = common],
                    !.body = IF stuck = <<>> THEN @
                             ELSE [@ EXCEPT ![target] = moveStuck(stuck, @)],
                    !.inst = [i \in DOMAIN @ |->
                                IF i \in Range(stuck)
                                THEN [@[i] EXCEPT !.parent = target]
                                ELSE @[i]],
                    !.parked = [k \in (DOMAIN @) \ {adv.block} |-> @[k]]],
           next |-> adv.next]

----------------------------------------------------------------------------
(* Linearizer::needsFolding(PHINode&), foldPhis, addUndefInputs *)

\* faulty variant of needsFoldingPhi: only looks for predecessors the phi
\* does not know, not for incoming blocks that stopped being predecessors
needsFoldingPhi_unknownPredsOnly(s, phi) ==
  \E p \in PredSet(s.term, s.inst[phi].parent) :
    getBasicBlockIndex(s, phi, p) = 0

needsFoldingPhi(s, phi) ==
  LET block == s.inst[phi].parent
      preds == PredSet(s.term, block)
  IN \/ \E p \in preds : getBasicBlockIndex(s, phi, p) = 0
     \/ \E i \in 1..Len(s.inst[phi].inc) : s.inst[phi].inc[i] \notin preds

\* faulty variant of foldChain: the select takes the value so far where the
\* edge mask holds and the incoming value elsewhere
RECURSIVE foldChain_swapped(_, _, _, _, _, _)
foldChain_swapped(s, phi, i, defValue, at, chain) ==
  LET p == s.inst[phi]
      mask == getEdgeMask(s, p.inc[i], p.parent)
      ops == <<mask, defValue, p.ops[i]>>
      s1 == createInst(s, [op |-> "select", name |-> "", parent |-> p.parent,
                           ops |-> ops, inc |-> <<>>],
                       at, s.valShape[phi])
  IN IF i > Len(p.inc) THEN [s |-> s, def |-> defValue, chain |-> chain]
     ELSE IF mask = Null
     THEN [s |-> [s EXCEPT !.failed = TRUE], def |-> defValue, chain |-> chain]
     ELSE foldChain_swapped(s1, phi, i + 1, IV(s.nextId), at + 1,
                            Append(chain, [id |-> s.nextId, ops |-> ops]))

\* the select chain of one phi from incoming i on, defValue so far; the
\* builder stands in front of the block's first non-phi instruction, which
\* is at position at after the selects created so far
RECURSIVE foldChain(_, _, _, _, _, _)
foldChain(s, phi, i, defValue, at, chain) ==
  LET p == s.inst[phi]
      mask == getEdgeMask(s, p.inc[i], p.parent)
      ops == <<mask, p.ops[i], defValue>>
      s1 == createInst(s, [op |-> "select", name |-> "", parent |-> p.parent,
                           ops |-> ops, inc |-> <<>>],
                       at, s.valShape[phi])
  IN IF i > Len(p.inc) THEN [s |-> s, def |-> defValue, chain |-> chain]
     ELSE IF mask = Null
     THEN [s |-> [s EXCEPT !.failed = TRUE], def |-> defValue, chain |-> chain]
     ELSE foldChain(s1, phi, i + 1, IV(s.nextId), at + 1,
                    Append(chain, [id |-> s.nextId, ops |-> ops]))

\* one iteration of the loop over the phis of foldPhis
foldPhi(s, phi) ==
  LET p == s.inst[phi]
      r == foldChain(s, phi, 2, p.ops[1], firstInsertionPt(s, p.parent), <<>>)
      s2 == eraseFromParent(replaceAllUsesWith(r.s, phi, r.def), phi)
  IN IF r.s.failed THEN r.s
     ELSE [s2 EXCEPT !.foldLog = @ \cup
             {[block |-> p.parent, phi |-> phi, vals |-> p.ops,
               blocks |-> p.inc, shape |-> s.valShape[phi],
               result |-> r.def, chain |-> r.chain,
               resultShape |-> IF IsInst(r.s, r.def)
                               THEN r.s.valShape[r.def[2]] ELSE "none"]}]

RECURSIVE foldPhiSeq(_, _)
foldPhiSeq(s, phis) ==
  IF phis = <<>> \/ s.failed THEN s
  ELSE foldPhiSeq(foldPhi(s, phis[1]), Tail(phis))

foldPhis(s, block) ==
  IF s.body[block] = <<>> \/ ~isPhi(s, s.body[block][1]) THEN s
  ELSE IF ~needsFoldingPhi(s, s.body[block][1]) THEN s
  ELSE foldPhiSeq(s, leadingPhis(s, block))

RECURSIVE addUndefToPhi(_, _, _)
addUndefToPhi(s, phi, preds) ==
  IF preds = <<>> THEN s
  ELSE addUndefToPhi(
         IF getBasicBlockIndex(s, phi, preds[1]) > 0 THEN s
         ELSE addIncoming(s, phi, Undef, preds[1]),
         phi, Tail(preds))

RECURSIVE addUndefSeq(_, _, _)
addUndefSeq(s, phis, preds) ==
  IF phis = <<>> THEN s
  ELSE addUndefSeq(addUndefToPhi(s, phis[1], preds), Tail(phis), preds)

addUndefInputs(s, block) ==
  addUndefSeq(s, leadingPhis(s, block),
              predecessors(s.term, block, predRev))

----------------------------------------------------------------------------
(* Linearizer::processBranch *)

processBranch(s, head, exitRelay) ==
  LET succs == s.term[head] IN
  IF Len(succs) = 0 THEN s
  ELSE IF Len(succs) > 2
  THEN \* a switch: dyn_cast<BranchInst> gives null and the null pointer is
       \* dereferenced; the run is stopped there or goes on undefined
       IF s.nullDeref = "crash" THEN [s EXCEPT !.failed = TRUE]
       ELSE [s EXCEPT !.undefined = TRUE]
  ELSE IF Len(succs) = 1
  THEN LET r == addTargetToRelay(s.relay, exitRelay, getIndex(succs[1]))
       IN [s EXCEPT !.relay = r.ch,
                    !.edgeMask = setEdgeMask(@, head, succs[1],
                                             getExitMask(head, 0)),
                    !.term[head] = <<relayBlockOf(r.node)>>]
  ELSE
    LET mustFoldBranch == needsFoldingTerm(s, head)
        swap == getIndex(succs[1]) > getIndex(succs[2])
        firstSuccIdx == IF swap THEN 2 ELSE 1
        secondSuccIdx == IF swap THEN 1 ELSE 2
        firstBlock == succs[firstSuccIdx]
        firstId == getIndex(firstBlock)
        secondBlock == succs[secondSuccIdx]
        secondId == getIndex(secondBlock)
        em == setEdgeMask(
                setEdgeMask(s.edgeMask, head, firstBlock,
                            getExitMask(head, firstSuccIdx - 1)),
                head, secondBlock, getExitMask(head, secondSuccIdx - 1))
        r1 == addTargetToRelay(s.relay, exitRelay, firstId)
        r2 == IF mustFoldBranch
              THEN addTargetToRelay(r1.ch, r1.node, secondId) ELSE r1
        domFix == dominates(s.dt, head, secondBlock)
                  /\ getRelay(r2.ch, secondId) = NoRelay
        r3 == addTargetToRelay(r2.ch, exitRelay, secondId)
        secondTarget == IF mustFoldBranch THEN relayBlockOf(r2.node)
                        ELSE relayBlockOf(r3.node)
    IN IF ~(firstId > 0 /\ secondId > 0) THEN [s EXCEPT !.failed = TRUE]
       ELSE [s EXCEPT
               !.edgeMask = em,
               !.relay = r3.ch,
               !.term[head] = [i \in 1..2 |->
                  IF i = firstSuccIdx THEN relayBlockOf(r2.node)
                  ELSE secondTarget],
               !.dt = IF domFix THEN [@ EXCEPT ![secondBlock] = firstBlock]
                      ELSE @,
               !.termShape[head] = "uni"]

----------------------------------------------------------------------------
(* Linearizer::promoteDefinition *)

\* faulty variant of the loop over the predecessors: the predecessors passed
\* before the phi is created get the new value instead of the one they carry
RECURSIVE promotePreds_passedTakeNew(_, _, _, _, _, _, _)
promotePreds_passedTakeNew(s, blockId, defBlockId, defs, preds, k, st) ==
  IF k > Len(preds) THEN [s |-> s, localDef |-> st.localDef]
  ELSE
    LET block == getBlock(blockId)
        predIndex == getIndex(preds[k])
        reachingDef == defs[predIndex - defBlockId + 1]
        inVal == IF predIndex < defBlockId THEN Undef
                 ELSE IF reachingDef = Null THEN Undef ELSE reachingDef
        id == s.nextId
        passed == SubSeq(preds, 1, k - 1)
        s1 == createInst(s, [op |-> "phi", name |-> "", parent |-> block,
                             ops |-> [j \in 1..(k - 1) |-> inVal],
                             inc |-> passed],
                         firstInsertionPt(s, block), "none")
        withPhi == IF st.localPhi = 0
                   THEN [s |-> s1, localDef |-> IV(id), localPhi |-> id]
                   ELSE [s |-> s, localDef |-> st.localDef,
                         localPhi |-> st.localPhi]
        extend(w) ==
          promotePreds_passedTakeNew(addIncoming(w.s, w.localPhi, inVal, preds[k]),
                       blockId, defBlockId, defs, preds, k + 1,
                       [localDef |-> w.localDef, localPhi |-> w.localPhi])
    IN IF predIndex >= defBlockId /\ predIndex >= blockId
       THEN promotePreds_passedTakeNew(s, blockId, defBlockId, defs, preds, k + 1, st)
       ELSE IF st.localDef = Null \/ st.localDef = inVal
       THEN promotePreds_passedTakeNew(s, blockId, defBlockId, defs, preds, k + 1,
                         [st EXCEPT !.localDef = inVal])
       ELSE extend(withPhi)

\* the loop over the predecessors of block; st holds localDef and localPhi
RECURSIVE promotePreds(_, _, _, _, _, _, _)
promotePreds(s, blockId, defBlockId, defs, preds, k, st) ==
  IF k > Len(preds) THEN [s |-> s, localDef |-> st.localDef]
  ELSE
    LET block == getBlock(blockId)
        predIndex == getIndex(preds[k])
        reachingDef == defs[predIndex - defBlockId + 1]
        inVal == IF predIndex < defBlockId THEN Undef
                 ELSE IF reachingDef = Null THEN Undef ELSE reachingDef
        id == s.nextId
        passed == SubSeq(preds, 1, k - 1)
        s1 == createInst(s, [op |-> "phi", name |-> "", parent |-> block,
                             ops |-> [j \in 1..(k - 1) |-> st.localDef],
                             inc |-> passed],
                         firstInsertionPt(s, block), "none")
        withPhi == IF st.localPhi = 0
                   THEN [s |-> s1, localDef |-> IV(id), localPhi |-> id]
                   ELSE [s |-> s, localDef |-> st.localDef,
                         localPhi |-> st.localPhi]
        extend(w) ==
          promotePreds(addIncoming(w.s, w.localPhi, inVal, preds[k]),
                       blockId, defBlockId, defs, preds, k + 1,
                       [localDef |-> w.localDef, localPhi |-> w.localPhi])
    IN IF predIndex >= defBlockId /\ predIndex >= blockId
       THEN promotePreds(s, blockId, defBlockId, defs, preds, k + 1, st)
       ELSE IF st.localDef = Null \/ st.localDef = inVal
       THEN promotePreds(s, blockId, defBlockId, defs, preds, k + 1,
                         [st EXCEPT !.localDef = inVal])
       ELSE extend(withPhi)

\* the loop over the blocks of the span; defs[i + 1] is the code's defs[i],
\* last is the greatest block id handed to getBlock
RECURSIVE promoteBlocks(_, _, _, _, _)
promoteBlocks(s, defBlockId, i, span, defs) ==
  IF i >= span + 1 \/ s.failed
  THEN [s |-> s, defs |-> defs, last |-> defBlockId + i - 1]
  ELSE IF defBlockId + i >= getNumBlocks
  THEN [s |-> [s EXCEPT !.failed = TRUE], defs |-> defs,
        last |-> defBlockId + i]
  ELSE LET blockId == defBlockId + i
           preds == predecessors(s.term, getBlock(blockId), predRev)
           \* the phi created for this block, if any, as it is left
           noted(r) ==
             IF r.s.nextId = s.nextId THEN r.s
             ELSE [r.s EXCEPT !.newPhis = @ \cup
                     {[blockId |-> blockId, preds |-> preds, defs |-> defs,
                       inc |-> r.s.inst[s.nextId].inc,
                       ops |-> r.s.inst[s.nextId].ops]}]
           next(r) == promoteBlocks(noted(r), defBlockId, i + 1, span,
                                    Append(defs, r.localDef))
       IN next(promotePreds(s, blockId, defBlockId, defs, preds, 1,
                            [localDef |-> Null, localPhi |-> 0]))

\* defs is a vector of span elements, so the store to and the load from
\* defs[span] lie behind its end: the run goes on with the value stored
\* there (s.overrun = "unnoticed") or is stopped at the access
promoteDefinition(s, v, defBlockId, destBlockId) ==
  LET log(s1, last, slots, ret, val) ==
        [s1 EXCEPT !.promoteLog = @ \cup
           {[v |-> v, defBlockId |-> defBlockId, destBlockId |-> destBlockId,
             last |-> last, slots |-> slots, ret |-> ret, val |-> val,
             created |-> s1.nextId - s.nextId, phis |-> s1.newPhis]}]
  IN
  IF defBlockId > destBlockId THEN [s |-> [s EXCEPT !.failed = TRUE], val |-> v]
  ELSE IF defBlockId = destBlockId
  THEN [s |-> log([s EXCEPT !.newPhis = {}], defBlockId, {}, 0, v), val |-> v]
  ELSE LET span == destBlockId - defBlockId + 1
           result(r) ==
             LET slots == 0..(Len(r.defs) - 1)
                 logged(val) == log(r.s, r.last, slots, span, val)
             IN IF r.s.failed \/ r.defs[span + 1] = Null
                   \/ s.overrun = "crash"
                THEN [s |-> [logged(Null) EXCEPT !.failed = TRUE], val |-> v]
                ELSE [s |-> logged(r.defs[span + 1]), val |-> r.defs[span + 1]]
       IN result(promoteBlocks([s EXCEPT !.newPhis = {}], defBlockId, 1, span,
                               <<v>>))

----------------------------------------------------------------------------
(* LiveValueTracker *)

\* LiveValueTracker::getExitingBlock and GetExitingBlock; 0 when the code
\* reaches abort()
getExitingBlock(s, loop, exitBlock) ==
  LET ps == SelectSeq(predecessors(s.term, exitBlock, predRev),
                      LAMBDA p : contains(loop, p))
  IN IF ps = <<>> THEN 0 ELSE ps[1]

\* faulty variant of requestTracker: the map of the trackers handed out is
\* not looked up, every request creates a phi
requestTracker_noLookup(s, loop, preHeader, v) ==
  LET id == s.nextId
      s1 == createInst(s, [op |-> "phi", name |-> "track",
                           parent |-> loop, ops |-> <<Undef, IV(id)>>,
                           inc |-> <<preHeader, li.latch[loop]>>],
                       firstInsertionPt(s, loop), "varying")
  IN [s |-> [s1 EXCEPT !.liveOutPhis =
                         [w \in DOMAIN @ \cup {v} |-> IF w = v THEN id ELSE @[w]]],
      phi |-> id]

\* LiveValueTracker::requestTracker for the instruction with id v
requestTracker(s, loop, preHeader, v) ==
  IF v \in DOMAIN s.liveOutPhis THEN [s |-> s, phi |-> s.liveOutPhis[v]]
  ELSE LET id == s.nextId
           s1 == createInst(s, [op |-> "phi", name |-> "track",
                                parent |-> loop, ops |-> <<Undef, IV(id)>>,
                                inc |-> <<preHeader, li.latch[loop]>>],
                            firstInsertionPt(s, loop), "varying")
       IN [s |-> [s1 EXCEPT !.liveOutPhis = @ @@ (v :> id)], phi |-> id]

\* LiveValueTracker::getLastTrackerState
getLastTrackerState(s, loop, tracker) ==
  s.inst[tracker].ops[getBasicBlockIndex(s, tracker, li.latch[loop])]

\* faulty variant of addTrackerUpdate: the operands of the select are
\* exchanged, so the tracker takes the value for the lanes that stay
addTrackerUpdate_swapped(s, loop, tracker, val) ==
  LET latch == li.latch[loop]
      latchId == getBasicBlockIndex(s, tracker, latch)
      lastTrackerState == s.inst[tracker].ops[latchId]
      id == s.nextId
      s1 == createInst(s, [op |-> "select", name |-> "update",
                           parent |-> latch,
                           ops |-> <<getCombinedLoopExitMask(loop),
                                     lastTrackerState, val>>,
                           inc |-> <<>>],
                       Len(s.body[latch]) + 1, "varying")
  IN [s1 EXCEPT !.inst[tracker].ops[latchId] = IV(id)]

\* LiveValueTracker::addTrackerUpdate
addTrackerUpdate(s, loop, tracker, val) ==
  LET latch == li.latch[loop]
      latchId == getBasicBlockIndex(s, tracker, latch)
      lastTrackerState == s.inst[tracker].ops[latchId]
      id == s.nextId
      s1 == createInst(s, [op |-> "select", name |-> "update",
                           parent |-> latch,
                           ops |-> <<getCombinedLoopExitMask(loop), val,
                                     lastTrackerState>>,
                           inc |-> <<>>],
                       Len(s.body[latch]) + 1, "varying")
  IN [s1 EXCEPT !.inst[tracker].ops[latchId] = IV(id)]

\* the body of the loop over the exit block's phis in trackLiveOuts
trackLiveOut(s, loop, preHeader, exitBlock, lcPhi) ==
  LET p == s.inst[lcPhi]
      exitingBlock == getExitingBlock(s, loop, exitBlock)
      finalExit == exitBlock \notin mandatory
      inLoop == {i \in 1..Len(p.inc) : contains(loop, p.inc[i])}
      loopIncomingId == IF inLoop = {} THEN 0 ELSE Min(inLoop)
      inVal == p.ops[loopIncomingId]
      \* after addTrackerUpdate: the kill exit check and the replacement of
      \* the outside uses
      replaceOutside(s1, tracker) ==
        LET liveOut == getLastTrackerState(s1, loop, tracker)
            outside == {i \in DOMAIN s1.inst :
                          ~contains(loop, s1.inst[i].parent)}
            s2 == setOperands(
                    [s1 EXCEPT !.inst[lcPhi].ops[loopIncomingId] = liveOut],
                    outside, inVal, liveOut)
            s3 == IF finalExit THEN s1 ELSE s2
        IN [s3 EXCEPT !.trackLog = @ \cup
              {[loop |-> loop, exit |-> exitBlock, val |-> inVal[2],
                kill |-> finalExit, tracker |-> tracker,
                update |-> liveOut[2], lcPhi |-> lcPhi, before |-> inVal,
                after |-> s3.inst[lcPhi].ops[loopIncomingId]]}]
      update(rq) ==
        replaceOutside(addTrackerUpdate(rq.s, loop, rq.phi, inVal), rq.phi)
  IN IF Len(p.inc) # 1 \/ loopIncomingId = 0 \/ exitingBlock = 0
     THEN [s EXCEPT !.failed = TRUE]
     ELSE IF exitingBlock # p.inc[loopIncomingId]
     THEN [s EXCEPT !.failed = TRUE]
     ELSE IF ~IsInst(s, inVal) THEN s
     ELSE IF ~contains(loop, s.inst[inVal[2]].parent) THEN s
     ELSE update(requestTracker(s, loop, preHeader, inVal[2]))

RECURSIVE trackLiveOutSeq(_, _, _, _, _)
trackLiveOutSeq(s, loop, preHeader, exitBlock, phis) ==
  IF phis = <<>> \/ s.failed THEN s
  ELSE trackLiveOutSeq(trackLiveOut(s, loop, preHeader, exitBlock, phis[1]),
                       loop, preHeader, exitBlock, Tail(phis))

\* LiveValueTracker::trackLiveOuts
trackLiveOuts(s, loop, preHeader, exitBlock) ==
  IF getExitingBlock(s, loop, exitBlock) = 0 THEN [s EXCEPT !.failed = TRUE]
  ELSE trackLiveOutSeq(s, loop, preHeader, exitBlock,
                       leadingPhis(s, exitBlock))

----------------------------------------------------------------------------
(* Loop normalization: Linearizer::convertToSingleExitLoop *)

\* Loop::blocks(): header first
LoopBlockSeq(loop) ==
  <<loop>> \o SetToSeqAsc(li.blocks[loop] \ {loop})

\* Loop::getExitBlocks: one entry per edge leaving the loop
getExitBlocks(T, loop) ==
  LET bs == LoopBlockSeq(loop)
  IN Flatten([i \in 1..Len(bs) |->
                SelectSeq(T[bs[i]], LAMBDA t : ~contains(loop, t))])

\* Loop::getExitingBlocks
getExitingBlocks(T, loop) ==
  SelectSeq(LoopBlockSeq(loop),
            LAMBDA b : \E t \in Range(T[b]) : ~contains(loop, t))

\* faulty variant of dropLoopExit: marks the terminator uniform but keeps
\* its edge out of the loop
dropLoopExit_keepEdge(s, b, loop) ==
  [s EXCEPT !.termShape[b] = "uni"]

\* Linearizer::dropLoopExit
dropLoopExit(s, b, loop) ==
  LET inLoop == SelectSeq(s.term[b], LAMBDA t : contains(loop, t))
  IN IF Len(s.term[b]) <= 1 \/ inLoop = <<>> THEN [s EXCEPT !.failed = TRUE]
     ELSE [s EXCEPT !.term[b] = <<inLoop[1]>>, !.termShape[b] = "uni"]

RECURSIVE dropLoopExits(_, _, _)
dropLoopExits(s, bs, loop) ==
  IF bs = <<>> \/ s.failed THEN s
  ELSE dropLoopExits(dropLoopExit(s, bs[1], loop), Tail(bs), loop)

\* the loop over the exit blocks: extend the exit relay chain and track the
\* live-outs of the exits of this loop level
RECURSIVE collectExits(_, _, _, _, _)
collectExits(s, loop, preHeader, loopExitRelay, exits) ==
  IF exits = <<>> \/ s.failed THEN [s |-> s, node |-> loopExitRelay]
  ELSE LET exitBlock == exits[1]
           r == addTargetToRelay(s.relay, loopExitRelay, getIndex(exitBlock))
           s1 == [s EXCEPT !.relay = r.ch]
           exitingBlock == getExitingBlock(s1, loop, exitBlock)
           s2 == IF exitingBlock = 0 THEN [s1 EXCEPT !.failed = TRUE]
                 ELSE IF li.loopFor[exitingBlock] = loop
                 THEN trackLiveOuts(s1, loop, preHeader, exitBlock)
                 ELSE s1
       IN collectExits(s2, loop, preHeader, r.node, Tail(exits))

\* the loop over the incoming values of one loop-closed phi
RECURSIVE repairIncoming(_, _, _, _, _)
repairIncoming(s, loop, block, lcPhi, i) ==
  IF i > Len(s.inst[lcPhi].inc) \/ s.failed THEN s
  ELSE
    LET v == s.inst[lcPhi].ops[i]
        latch == li.latch[loop]
        defBlock == s.inst[v[2]].parent
        s1 == [s EXCEPT !.inst[lcPhi].inc[i] = latch]
        defIndex == getIndex(defBlock)
        setIncoming(pd) == [pd.s EXCEPT !.inst[lcPhi].ops[i] = pd.val]
    IN IF ~contains(loop, s.inst[lcPhi].inc[i])
       THEN [s EXCEPT !.failed = TRUE]
       ELSE IF ~IsInst(s, v) THEN repairIncoming(s, loop, block, lcPhi, i + 1)
       ELSE IF dominates(s.dt, defBlock, block)
       THEN repairIncoming(s1, loop, block, lcPhi, i + 1)
       ELSE IF ~(getIndex(loop) <= defIndex /\ defIndex <= getIndex(latch))
       THEN [s1 EXCEPT !.failed = TRUE]
       ELSE repairIncoming(
              setIncoming(promoteDefinition(s1, v, defIndex, getIndex(latch))),
              loop, block, lcPhi, i + 1)

\* the loop that eliminates the phis at the head of one exit block
RECURSIVE eliminatePhis(_, _, _)
eliminatePhis(s, loop, block) ==
  IF s.failed \/ s.body[block] = <<>> THEN s
  ELSE IF ~isPhi(s, s.body[block][1]) THEN s
  ELSE LET lcPhi == s.body[block][1]
           replace(s1) ==
             IF s1.failed \/ s1.inst[lcPhi].ops = <<>>
             THEN [s1 EXCEPT !.failed = TRUE]
             ELSE eliminatePhis(
                    eraseFromParent(
                      replaceAllUsesWith(s1, lcPhi, s1.inst[lcPhi].ops[1]),
                      lcPhi),
                    loop, block)
       IN replace(repairIncoming(s, loop, block, lcPhi, 1))

RECURSIVE eliminateExitPhis(_, _, _)
eliminateExitPhis(s, loop, exits) ==
  IF exits = <<>> \/ s.failed THEN s
  ELSE eliminateExitPhis(eliminatePhis(s, loop, exits[1]), loop, Tail(exits))

\* The functions of the module: [name, params, ret, linkage, attrs].  The
\* name of a call instruction is the name of the function it calls.
Kernel ==
  [name |-> "kernel", params |-> <<>>, ret |-> "void",
   linkage |-> "external", attrs |-> {}]

\* the declaration requestReductionFunc creates
ReductionDecl(name) ==
  [name |-> name, params |-> <<"i1">>, ret |-> "i1", linkage |-> "external",
   attrs |-> {"readnone", "nounwind", "convergent", "norecurse"}]

\* Module::getFunction: position in the function list, 0 if there is none
getFunction(fs, name) ==
  IF \E i \in DOMAIN fs : fs[i].name = name
  THEN CHOOSE i \in DOMAIN fs : fs[i].name = name
  ELSE 0

\* Function::Create(type, linkage, name, &mod): the function is appended to
\* the function list; a name that is taken gets the first free suffix
FunctionCreate(fs, f) ==
  LET taken == {fs[i].name : i \in DOMAIN fs}
      alts == <<"rv_any1", "rv_any2", "rv_any3", "rv_any4">>
      free == {k \in DOMAIN alts : alts[k] \notin taken}
      name == IF f.name \notin taken THEN f.name
              ELSE alts[CHOOSE k \in free : \A m \in free : k <= m]
  IN Append(fs, [f EXCEPT !.name = name])

\* faulty variant of requestReductionFunc: the function is created without
\* looking for one of that name
requestReductionFunc_noLookup(fs, name) ==
  [funcs |-> FunctionCreate(fs, ReductionDecl(name)), f |-> Len(fs) + 1]

\* Linearizer::requestReductionFunc: the function list and the position of
\* the function handed out
requestReductionFunc(fs, name) ==
  LET redFunc == getFunction(fs, name)
  IN IF redFunc # 0 THEN [funcs |-> fs, f |-> redFunc]
     ELSE [funcs |-> FunctionCreate(fs, ReductionDecl(name)),
           f |-> Len(fs) + 1]

\* Linearizer::createReduction: the call is appended to atEnd
createReduction(s, pred, name, atEnd) ==
  LET r == requestReductionFunc(s.funcs, name)
      id == s.nextId
  IN [s |-> createInst([s EXCEPT !.funcs = r.funcs],
                       [op |-> "call", name |-> r.funcs[r.f].name,
                        parent |-> atEnd, ops |-> <<pred>>, inc |-> <<>>],
                       Len(s.body[atEnd]) + 1, "uni"),
      id |-> id]

\* faulty variant of createLatchExit: the new branch gets no shape
createLatchExit_noShape(s, loop, exitNode) ==
  LET latch == li.latch[loop]
      id == s.nextId
      s1 == createInst(s, [op |-> "call", name |-> "rv_any", parent |-> latch,
                           ops |-> <<getExitMaskTo(latch, loop)>>,
                           inc |-> <<>>],
                       Len(s.body[latch]) + 1, "uni")
  IN [s1 EXCEPT !.term[latch] = <<loop, relayBlockOf(exitNode)>>,
                !.termCond = @ @@ (latch :> IV(id)),
                !.termShape[latch] = "undef",
                !.divLoops = @ \ {loop}]

\* faulty variant of createLatchExit: the successors of the new branch are
\* exchanged, so the latch leaves the loop while a lane is live
createLatchExit_swapped(s, loop, exitNode) ==
  LET latch == li.latch[loop]
      id == s.nextId
      s1 == createInst(s, [op |-> "call", name |-> "rv_any", parent |-> latch,
                           ops |-> <<getExitMaskTo(latch, loop)>>,
                           inc |-> <<>>],
                       Len(s.body[latch]) + 1, "uni")
  IN [s1 EXCEPT !.term[latch] = <<relayBlockOf(exitNode), loop>>,
                !.termCond = @ @@ (latch :> IV(id)),
                !.termShape[latch] = "uni",
                !.divLoops = @ \ {loop}]

\* faulty variant of createLatchExit: the loop stays flagged divergent
createLatchExit_keepFlag(s, loop, exitNode) ==
  LET latch == li.latch[loop]
      liveCond == getExitMaskTo(latch, loop)
      id == s.nextId
      s1 == createInst(s, [op |-> "call", name |-> "rv_any", parent |-> latch,
                           ops |-> <<liveCond>>, inc |-> <<>>],
                       Len(s.body[latch]) + 1, "uni")
  IN [s1 EXCEPT !.term[latch] = <<loop, relayBlockOf(exitNode)>>,
                !.termCond = @ @@ (latch :> IV(id)),
                !.termShape[latch] = "uni"]

\* faulty variant of createLatchExit: the reduction is taken of the combined
\* exit mask of the loop instead of the live mask of the edge to the header
createLatchExit_exitMask(s, loop, exitNode) ==
  LET latch == li.latch[loop]
      liveCond == getCombinedLoopExitMask(loop)
      id == s.nextId
      s1 == createInst(s, [op |-> "call", name |-> "rv_any", parent |-> latch,
                           ops |-> <<liveCond>>, inc |-> <<>>],
                       Len(s.body[latch]) + 1, "uni")
  IN [s1 EXCEPT !.term[latch] = <<loop, relayBlockOf(exitNode)>>,
                !.termCond = @ @@ (latch :> IV(id)),
                !.termShape[latch] = "uni",
                !.divLoops = @ \ {loop}]

\* the new latch terminator: br rv_any(liveCond), header, exit relay block
createLatchExit(s, loop, exitNode) ==
  LET latch == li.latch[loop]
      liveCond == getExitMaskTo(latch, loop)
      r == createReduction(s, liveCond, "rv_any", latch)
  IN [r.s EXCEPT !.term[latch] = <<loop, relayBlockOf(exitNode)>>,
                 !.termCond = @ @@ (latch :> IV(r.id)),
                 !.termShape[latch] = "uni",
                 !.divLoops = @ \ {loop}]

convertToSingleExitLoop(s, loop, exitRelay) ==
  LET latch == li.latch[loop]
      headerRelay == getRelay(s.relay, getIndex(loop))
      relayPreds == predecessors(s.term, relayBlockOf(getIndex(loop)), predRev)
      preHeader == relayPreds[1]
      loopExitBlocks == getExitBlocks(s.term, loop)
      abort == [s EXCEPT !.failed = TRUE]
      \* the new latch exit, after the old exits were dropped
      latchExit(s2, exitNode) ==
        IF s2.failed \/ Len(s2.term[latch]) # 1 THEN abort
        ELSE createLatchExit(s2, loop, exitNode)
      \* drop the old exits, after the loop-closed phis were eliminated
      dropExits(s1, exitNode) ==
        IF s1.failed THEN abort
        ELSE latchExit(dropLoopExits(s1, getExitingBlocks(s1.term, loop), loop),
                       exitNode)
      \* eliminate the loop-closed phis, after the exits were collected
      eliminate(ex) ==
        IF ex.s.failed \/ ex.node = NoRelay THEN abort
        ELSE dropExits(eliminateExitPhis(ex.s, loop, loopExitBlocks), ex.node)
  IN IF headerRelay = NoRelay \/ relayPreds = <<>> THEN abort
     ELSE eliminate(collectExits([s EXCEPT !.liveOutPhis = <<>>], loop,
                                 preHeader, exitRelay, loopExitBlocks))

----------------------------------------------------------------------------
(* Linearizer::cleanup *)

cleanup(s) ==
  LET same(b) == Len(s.term[b]) > 1 /\ Cardinality(Range(s.term[b])) = 1
  IN [s EXCEPT
        !.term = [b \in DOMAIN @ |-> IF same(b) THEN <<@[b][1]>> ELSE @[b]],
        !.termShape = [b \in DOMAIN @ |-> IF same(b) THEN "uni" ELSE @[b]]]

----------------------------------------------------------------------------
(* Inputs of one run *)

CondBlocks(f) == {b \in Blocks(f) : Len(f.succ[b]) = 2}

ExitingBlocksOf(f, loop) ==
  {b \in li.blocks[loop] : \E t \in Range(f.succ[b]) : ~contains(loop, t)}

ExitBlocksOf(f, loop) ==
  UNION {{t \in Range(f.succ[b]) : ~contains(loop, t)} : b \in li.blocks[loop]}

\* branches of one input for which vecInfo has no shape
MaxUnknownShapes == 1

\* what the divergence analysis can report for branch shapes ts; a branch
\* without a recorded shape ("undef") is not known to be uniform
DivergenceOK(ts, D, M) ==
  /\ \A b \in Blocks(fn) \ CondBlocks(fn) : ts[b] = "uni"
  /\ \A b \in Blocks(fn) \ fn.region : ts[b] = "uni"
  /\ \A L \in Loops :
       /\ (\E b \in ExitingBlocksOf(fn, L) : ts[b] # "uni") => L \in D
       /\ L \in D => \E b \in li.blocks[L] : ts[b] # "uni"
       /\ L \in D => ExitBlocksOf(fn, L) \cap M # {}
       /\ \A b \in ExitingBlocksOf(fn, L) :
            \A t \in Range(fn.succ[b]) \ li.blocks[L] :
              /\ (ts[b] # "uni" => t \in M)
              /\ (t \in M => L \in D)
  /\ M \subseteq UNION {ExitBlocksOf(fn, L) : L \in Loops}

\* the instruction ids of the input: block b defines value b; a block with
\* several predecessors and every loop exit block starts with one phi
PhiId(b) == NumBlocks(fn) + b

PhiBlocks ==
  {b \in fn.region :
     \/ Cardinality(PredSet(TermOf(fn), b)) >= 2
     \/ \E L \in Loops : b \in ExitBlocksOf(fn, L)}

\* the value block b receives in its phi on the edge from p
IncomingValue(b, p) ==
  LET left == {L \in Loops : p \in li.blocks[L] /\ b \notin li.blocks[L]}
  IN IF fn \in SharedLiveOuts /\ left # {}
     THEN IV(CHOOSE L \in left : \A K \in left : li.blocks[L] \subseteq li.blocks[K])
     ELSE IV(p)

InitialInst ==
  [i \in Blocks(fn) \cup {PhiId(b) : b \in PhiBlocks} |->
     IF i \in Blocks(fn)
     THEN [op |-> "def", name |-> "", parent |-> i,
           ops |-> IF i \in PhiBlocks THEN <<IV(PhiId(i))>> ELSE <<>>,
           inc |-> <<>>]
     ELSE LET b == i - NumBlocks(fn)
              ps == predecessors(TermOf(fn), b, predRev)
          IN [op |-> "phi", name |-> "", parent |-> b,
              ops |-> [k \in 1..Len(ps) |-> IncomingValue(b, ps[k])],
              inc |-> ps]]

InitialBody ==
  [b \in Blocks(fn) |-> IF b \in PhiBlocks THEN <<PhiId(b), b>> ELSE <<b>>]

\* shapes a shape analysis reports: a value computed in a block has the
\* shape of the block's branch; a phi is varying if an incoming value is
\* or if the lanes reach it divergently
InitialShape(ts, M) ==
  [i \in Blocks(fn) \cup {PhiId(b) : b \in PhiBlocks} |->
     IF i \in Blocks(fn) THEN ts[i]
     ELSE LET b == i - NumBlocks(fn)
              ps == PredSet(TermOf(fn), b)
          IN IF \E p \in ps : ts[p] # "uni" THEN "varying"
             ELSE IF b \in M THEN "varying"
             ELSE IF Cardinality(ps) >= 2 /\ \E c \in fn.region : ts[c] # "uni"
             THEN "varying"
             ELSE "uni"]

----------------------------------------------------------------------------
(* Vector execution of a normalized loop.  One step is one iteration of    *)
(* the loop for all lanes.  Lane l leaves the scalar loop in its iteration *)
(* trips[l].  An instruction of the loop other than a tracker phi or a     *)
(* select has in iteration k the value <<"val", id, k>>.                   *)

NumLanes == 2

MaxTrip == 2

Lanes == 1..NumLanes

\* lanes that leave the loop in iteration k
Leaving(k) == {l \in live : trips[l] = k}

\* truth of mask value m for lane l in iteration k of loop xloop: the
\* combined exit mask holds for the lanes that leave in this iteration, the
\* mask of the back edge for the lanes that stay
EvalMask(m, l, k) ==
  IF m = getCombinedLoopExitMask(xloop) THEN l \in Leaving(k)
  ELSE IF m = getExitMaskTo(li.latch[xloop], xloop)
  THEN l \in live \ Leaving(k)
  ELSE FALSE

RECURSIVE Eval(_, _, _)
Eval(v, l, k) ==
  IF v[1] # "inst" THEN v
  ELSE IF v[2] \notin DOMAIN inst THEN Null
  ELSE IF v[2] \in DOMAIN trk THEN trk[v[2]][l]
  ELSE IF inst[v[2]].op = "select"
  THEN IF EvalMask(inst[v[2]].ops[1], l, k) THEN Eval(inst[v[2]].ops[2], l, k)
       ELSE Eval(inst[v[2]].ops[3], l, k)
  ELSE <<"val", v[2], k>>

\* rv_any(mask): true iff the mask holds for some lane
rv_any(m, k) == \E l \in Lanes : EvalMask(m, l, k)

\* the tracker phis of loop L
TrackersOf(L) ==
  {i \in DOMAIN inst : inst[i].op = "phi" /\ inst[i].name = "track"
                       /\ inst[i].parent = L}

\* value of phi on the edge from block b
IncomingFrom(phi, b) ==
  LET at == {i \in 1..Len(inst[phi].inc) : inst[phi].inc[i] = b}
  IN IF at = {} THEN Null ELSE inst[phi].ops[Min(at)]

\* value of phi when the loop is entered
IncomingInitial(phi, latch) ==
  LET at == {i \in 1..Len(inst[phi].inc) : inst[phi].inc[i] # latch}
  IN IF at = {} THEN Null ELSE inst[phi].ops[Min(at)]

\* the successor the latch's conditional branch takes in iteration k
LatchTarget(L, k) ==
  LET latch == li.latch[L]
      cond == inst[termCond[latch][2]]
  IN IF rv_any(cond.ops[1], k) THEN term[latch][1] ELSE term[latch][2]

----------------------------------------------------------------------------
(* VectorizationInfo: the shape store.  The header declares setPinned,     *)
(* isPinned, getVectorShape, hasKnownShape and setVectorShape and defines  *)
(* setPinnedShape inline; the behaviour of the declared functions is taken *)
(* from their documented contract.                                         *)

\* values whose shape is recorded
NumValues == 2

Values == 1..NumValues

ShapeKinds == {"undef", "uni", "cont", "varying"}

\* the store as one record
Info == [shapes |-> shapes, pinned |-> pinned]

\* VectorizationInfo::getVectorShape: undef for a value without an entry
getVectorShape(vi, v) ==
  IF v \in DOMAIN vi.shapes THEN vi.shapes[v] ELSE "undef"

\* VectorizationInfo::isPinned
isPinned(vi, v) == v \in vi.pinned

\* faulty variant of setVectorShape: the shape of a pinned value is replaced
setVectorShape_unchecked(vi, v, shape) ==
  [vi EXCEPT !.shapes = [x \in (DOMAIN @) \cup {v} |->
                           IF x = v THEN shape ELSE @[x]]]

\* VectorizationInfo::setVectorShape: ignored without an error for a pinned
\* value, otherwise shapes[v] is updated
setVectorShape(vi, v, shape) ==
  IF isPinned(vi, v) THEN vi
  ELSE [vi EXCEPT !.shapes = [x \in (DOMAIN @) \cup {v} |->
                                IF x = v THEN shape ELSE @[x]]]

\* VectorizationInfo::setPinned
setPinned(vi, v) == [vi EXCEPT !.pinned = @ \cup {v}]

\* VectorizationInfo::setPinnedShape: setPinned(v); setVectorShape(v, shape)
setPinnedShape(vi, v, shape) == setVectorShape(setPinned(vi, v), v, shape)

infoVars == <<shapes, pinned, lastOp>>

\* the store after construction: no shapes, nothing pinned
InfoInit == shapes = <<>> /\ pinned = {} /\ lastOp = [op |-> "none"]

\* lastOp records the call and the store it was made on
InfoCommit(vi, op, v, shape) ==
  /\ shapes' = vi.shapes
  /\ pinned' = vi.pinned
  /\ lastOp' = [op |-> op, v |-> v, shape |-> shape, before |-> Info]

----------------------------------------------------------------------------
(* rvTool: decoding of the shape string given with -s.  A stringstream is  *)
(* [text, pos, failed]: the characters, the read position and failbit.     *)
(* The text holds no white space and no sign characters.                   *)

\* length of a shape string and number of arguments of the kernel
MaxTextLen == 4

MaxArgs == 2

Digits == <<"0", "1", "2", "3", "4", "5", "6", "7", "8", "9">>

Alphabet == {"B", "U", "C", "T", "S", "a", "_", "r", "x", "2"}

Texts == UNION {[1..n -> Alphabet] : n \in 0..MaxTextLen}

EOFChar == "EOF"

\* std::istream::get: at the end or on a failed stream EOF and failbit
streamGet(st) ==
  IF st.failed \/ st.pos > Len(st.text)
  THEN [c |-> EOFChar, st |-> [st EXCEPT !.failed = TRUE]]
  ELSE [c |-> st.text[st.pos], st |-> [st EXCEPT !.pos = @ + 1]]

\* std::istream::peek
streamPeek(st) ==
  IF st.failed \/ st.pos > Len(st.text) THEN EOFChar ELSE st.text[st.pos]

\* std::istream::unget: no effect on a failed stream
streamUnget(st) == IF st.failed THEN st ELSE [st EXCEPT !.pos = @ - 1]

RECURSIVE DigitRun(_, _)
DigitRun(text, p) ==
  IF p <= Len(text) /\ (\E d \in 1..10 : Digits[d] = text[p])
  THEN 1 + DigitRun(text, p + 1) ELSE 0

RECURSIVE NumberValue(_, _, _, _)
NumberValue(text, p, n, acc) ==
  IF n = 0 THEN acc
  ELSE NumberValue(text, p + 1, n - 1,
                   10 * acc + (CHOOSE d \in 1..10 : Digits[d] = text[p]) - 1)

\* VectorShape::undef(), uni(a), cont(a), varying(a) and strided(s, a): the
\* factory, the stride of a strided shape, the alignment
VectorShape(kind, stride, alignment) ==
  IF kind = "undef" THEN [kind |-> kind]
  ELSE IF kind = "strided"
  THEN [kind |-> kind, stride |-> stride, alignment |-> alignment]
  ELSE [kind |-> kind, alignment |-> alignment]

\* readNumber: 'shapeText >> number' and the assertion on failbit.  env has
\* the build (asserts compiled in or not) and the value an uninitialized
\* unsigned holds.  A failed extraction stores 0; on a stream that has
\* failed or ended number is not written at all.
readNumber(st, env) ==
  LET n == DigitRun(st.text, st.pos)
      ok == ~st.failed /\ n > 0
  IN [st |-> IF ok THEN [st EXCEPT !.pos = @ + n]
             ELSE [st EXCEPT !.failed = TRUE],
      number |-> IF ok THEN NumberValue(st.text, st.pos, n, 0)
                 ELSE IF st.failed \/ st.pos > Len(st.text) THEN env.garbage
                 ELSE 0,
      abort |-> ~ok /\ env.asserts]

\* decodeAlignment: 'a' and a number, or roll back and 1
decodeAlignment(st, env) ==
  LET after(g) ==
        IF g.c # "a"
        THEN [st |-> streamUnget(g.st), number |-> 1, abort |-> FALSE]
        ELSE readNumber(g.st, env)
  IN after(streamGet(st))

\* decodeShape: the stride is read after the alignment
decodeShape(st, env) ==
  LET done(s1, shape) == [st |-> s1, shape |-> shape, abort |-> FALSE]
      stop(s1) ==
        [st |-> s1, shape |-> VectorShape("undef", 0, 0), abort |-> TRUE]
      strided(c, al, num) ==
        IF num.abort THEN stop(num.st)
        ELSE IF c = "S"
        THEN done(num.st, VectorShape("strided", num.number, al.number))
        ELSE stop(num.st)   \* fail("Expected stride specifier.")
      aligned(c, al) ==
        IF al.abort THEN stop(al.st)
        ELSE IF c = "C"
        THEN done(al.st, VectorShape("cont", 0, al.number))
        ELSE IF c = "T"
        THEN done(al.st, VectorShape("varying", 0, al.number))
        ELSE IF c = "U"
        THEN done(al.st, VectorShape("uni", 0, al.number))
        ELSE strided(c, al, readNumber(al.st, env))
      first(g) ==
        IF g.c = "B" THEN done(g.st, VectorShape("undef", 0, 0))
        ELSE aligned(g.c, decodeAlignment(g.st, env))
  IN first(streamGet(st))

\* readList<'_'>(shapestream, argShapes, decodeShape)
RECURSIVE readList(_, _, _)
readList(st, env, vec) ==
  LET more(d) ==
        IF d.abort THEN [st |-> d.st, vec |-> vec, abort |-> TRUE]
        ELSE IF streamPeek(d.st) = "_"
        THEN readList(streamGet(d.st).st, env, Append(vec, d.shape))
        ELSE [st |-> d.st, vec |-> Append(vec, d.shape), abort |-> FALSE]
  IN more(decodeShape(st, env))

\* main: the handling of -s for a kernel with args arguments; resShape
\* starts as a default-constructed VectorShape, a failed assertion and fail
\* stop the driver
decodeShapeOption(text, args, env) ==
  LET Aborted == [status |-> "abort"]
      pad(vec) ==
        vec \o [i \in 1..(args - Len(vec)) |-> VectorShape("uni", 0, 1)]
      returnShape(vec, r) ==
        IF r.abort THEN Aborted
        ELSE [status |-> "ok", argShapes |-> pad(vec), resShape |-> r.shape]
      rest(vec, st) ==
        IF streamPeek(st) = EOFChar
        THEN [status |-> "ok", argShapes |-> pad(vec), resShape |-> [kind |-> "unset"]]
        ELSE IF streamGet(st).c # "r"
        THEN Aborted   \* fail("expected return shape")
        ELSE returnShape(vec, decodeShape(streamGet(st).st, env))
      list(l) ==
        IF l.abort THEN Aborted
        ELSE IF Len(l.vec) > args
        THEN Aborted   \* fail("too many arg shapes specified")
        ELSE rest(l.vec, l.st)
  IN list(readList([text |-> text, pos |-> 1, failed |-> FALSE], env, <<>>))

driverVars == <<shapeText, numArgs, parsed>>

\* the documented grammar: B, U[a<n>], C[a<n>], T[a<n>], S<k>[a<n>], shapes
\* separated by '_', an optional r<shape> at the end.  The functions give
\* the position behind the part they match, 0 if there is no match.
TokenEnd(text, p) ==
  LET AlignmentEnd(q) ==
        IF q <= Len(text) /\ text[q] = "a"
        THEN IF DigitRun(text, q + 1) = 0 THEN 0
             ELSE q + 1 + DigitRun(text, q + 1)
        ELSE q
  IN
  IF p > Len(text) THEN 0
  ELSE IF text[p] = "B" THEN p + 1
  ELSE IF text[p] \in {"U", "C", "T"} THEN AlignmentEnd(p + 1)
  ELSE IF text[p] = "S" /\ DigitRun(text, p + 1) > 0
  THEN AlignmentEnd(p + 1 + DigitRun(text, p + 1))
  ELSE 0

RECURSIVE ListEnd(_, _, _)
ListEnd(text, p, count) ==
  LET e == TokenEnd(text, p)
  IN IF e = 0 THEN [end |-> 0, count |-> count]
     ELSE IF e <= Len(text) /\ text[e] = "_"
     THEN ListEnd(text, e + 1, count + 1)
     ELSE [end |-> e, count |-> count + 1]

WellFormed(text, args) ==
  LET l == ListEnd(text, 1, 0)
  IN /\ l.end # 0
     /\ l.count <= args
     /\ \/ l.end = Len(text) + 1
        \/ /\ l.end <= Len(text)
           /\ text[l.end] = "r"
           /\ TokenEnd(text, l.end + 1) = Len(text) + 1

RECURSIVE Numeral(_)
Numeral(n) ==
  IF n < 10 THEN <<Digits[n + 1]>>
  ELSE Append(Numeral(n \div 10), Digits[(n % 10) + 1])

\* the token of a shape in the documented grammar; the alignment suffix is
\* left out for alignment 1
encodeShape(shape) ==
  LET encodeAlignment(n) == IF n = 1 THEN <<>> ELSE <<"a">> \o Numeral(n)
  IN
  IF shape.kind = "undef" THEN <<"B">>
  ELSE IF shape.kind = "uni" THEN <<"U">> \o encodeAlignment(shape.alignment)
  ELSE IF shape.kind = "cont" THEN <<"C">> \o encodeAlignment(shape.alignment)
  ELSE IF shape.kind = "varying"
  THEN <<"T">> \o encodeAlignment(shape.alignment)
  ELSE <<"S">> \o Numeral(shape.stride) \o encodeAlignment(shape.alignment)

\* the shapes whose token fits into a shape string
EncodableShapes ==
  LET Small == {1, 2, 22} IN
  {sh \in {VectorShape("undef", 0, 0)}
            \cup {VectorShape("uni", 0, n) : n \in Small}
            \cup {VectorShape("cont", 0, n) : n \in Small}
            \cup {VectorShape("varying", 0, n) : n \in Small}
            \cup {VectorShape("strided", k, n) : k \in Small, n \in Small} :
     Len(encodeShape(sh)) <= MaxTextLen}

----------------------------------------------------------------------------
(* Mask: a predicate and an active vector length, each a value or absent   *)

(* (Null).  Values are the integer constants <<"constint", n>>, the vector *)
(* constants <<"constvec", k>> (k = 0 is the zero vector) and the          *)
(* non-constant values <<"value", i>>.                                     *)

\* greatest integer constant and vector constant among the mask operands
MaxAVL == 2

maskVars == <<curMask, known>>

Mask(Pred, AVL) == [Pred |-> Pred, AVL |-> AVL]

\* no mask is under inspection
MaskIdle == curMask = Mask(Null, Null) /\ known = "idle"

ConstantInts == {<<"constint", n>> : n \in 0..MaxAVL}

Constants == ConstantInts \cup {<<"constvec", k>> : k \in 0..MaxAVL}

isNullValue(v) == v[2] = 0

\* the predicates and the vector lengths a mask is made of
Predicates ==
  {Null, <<"constint", 0>>, <<"constint", 1>>}
  \cup {<<"constvec", k>> : k \in 0..MaxAVL}
  \cup {<<"value", i>> : i \in 1..2}

VectorLengths == {Null} \cup ConstantInts \cup {<<"value", i>> : i \in 1..2}

\* Mask::fromVectorLength
fromVectorLength(EVLen) == Mask(Null, EVLen)

\* Mask::getAllFalse
getAllFalse == fromVectorLength(<<"constint", 0>>)

\* Mask::inferFromPredicate; the all-ones constants are <<"constint", 1>>
\* and the vector constant MaxAVL
inferFromPredicate(Pred) ==
  IF Pred \in {<<"constint", 1>>, <<"constvec", MaxAVL>>}
  THEN Mask(Null, Null)
  ELSE Mask(Pred, Null)

\* the masks: those the named constructors give and those made of a
\* predicate and a vector length
Masks == {Mask(P, L) : P \in Predicates, L \in VectorLengths}

\* dyn_cast<Constant> of a null pointer: with assertions the cast stops the
\* program; without them the null pointer is read and the outcome is open
nullCastOutcomes(asserts) ==
  IF asserts THEN {"fault"} ELSE {"true", "false", "fault"}

\* Mask::knownAllFalse: the outcomes of the call
knownAllFalse(m, asserts) ==
  IF m.AVL # Null /\ m.AVL \in ConstantInts /\ isNullValue(m.AVL)
  THEN {"true"}
  ELSE IF m.Pred # Null
  THEN \* the cast is applied to getAVL(), not to getPred()
       IF m.AVL = Null THEN nullCastOutcomes(asserts)
       ELSE IF m.AVL \in Constants /\ isNullValue(m.AVL) THEN {"true"}
       ELSE {"false"}
  ELSE {"false"}

----------------------------------------------------------------------------
(* The runs *)

InitFrom(inputs, modules) ==
  /\ fn \in inputs
  /\ funcs \in modules
  /\ parked = <<>>
  /\ predRev \in BOOLEAN
  /\ pc = "start"
  /\ li = LoopInfoOf(TermOf(fn))
  /\ li = li   \* the loop info is analysed once, before the run
  /\ blockIndex = [b \in Blocks(fn) |-> 0 - 1]
  /\ relays = <<>>
  /\ term = TermOf(fn)
  /\ dt = ScratchIDoms(TermOf(fn))
  /\ inst = InitialInst
  /\ body = InitialBody
  /\ \E V \in SUBSET (CondBlocks(fn) \cap fn.region) :
       \E U \in {X \in SUBSET V : Cardinality(X) <= MaxUnknownShapes} :
         termShape = [b \in Blocks(fn) |->
                        IF b \in U THEN "undef"
                        ELSE IF b \in V THEN "varying" ELSE "uni"]
  /\ mandatory \in SUBSET UNION {ExitBlocksOf(fn, L) : L \in Loops}
  /\ divLoops = {L \in Loops : ExitBlocksOf(fn, L) \cap mandatory # {}}
  /\ DivergenceOK(termShape, divLoops, mandatory)
  /\ vecInfo0 = [termShape |-> termShape, divLoops |-> divLoops]
  /\ relay = <<>>
  /\ edgeMask = <<>>
  /\ valShape = InitialShape(termShape, mandatory)
  /\ nextId = 2 * NumBlocks(fn) + 1
  /\ termCond = <<>>
  /\ foldLog = {}
  /\ trackLog = {}
  /\ promoteLog = {}
  /\ cur = 0
  /\ loopStack = <<>>
  /\ xloop = 0
  /\ xpc = "idle"
  /\ trips = <<>>
  /\ live = {}
  /\ iter = 0
  /\ trk = <<>>
  /\ renorm = {}
  /\ InfoInit
  /\ shapeText = <<>> /\ numArgs = 0 /\ parsed = [status |-> "pending"]
  /\ MaskIdle

\* the module holds the kernel alone
Init == InitFrom(Range(Catalogue), {<<Kernel>>})

\* runs over the loop nests alone
NestInit == InitFrom(LoopNests, {<<Kernel>>})

\* runs over the functions with several loops, in a module that holds the
\* kernel alone or the reduction function as well, declared by an earlier run
\* on another function of the module
TrackInit == InitFrom(SharedLiveOuts, {<<Kernel>>})

DetourInit == InitFrom(Detours, {<<Kernel>>})

ModuleInit ==
  InitFrom({F \in Range(Catalogue) :
              Cardinality(Headers(TermOf(F))) >= 2},
           {<<Kernel>>, <<Kernel, ReductionDecl("rv_any")>>,
            <<ReductionDecl("rv_any"), Kernel>>})

Commit(s) ==
  /\ term' = s.term
  /\ termShape' = s.termShape
  /\ divLoops' = s.divLoops
  /\ dt' = s.dt
  /\ relay' = s.relay
  /\ edgeMask' = s.edgeMask
  /\ inst' = s.inst
  /\ body' = s.body
  /\ valShape' = s.valShape
  /\ nextId' = s.nextId
  /\ termCond' = s.termCond
  /\ funcs' = s.funcs
  /\ parked' = s.parked
  /\ foldLog' = s.foldLog
  /\ trackLog' = s.trackLog
  /\ promoteLog' = s.promoteLog

linVars == <<term, termShape, divLoops, dt, relay, edgeMask, inst, body,
             valShape, nextId, termCond, funcs, parked, foldLog,
            trackLog,
             promoteLog>>

inputVars == <<fn, predRev, li, mandatory, vecInfo0>>

execVars == <<xloop, xpc, trips, live, iter, trk>>

otherVars == <<renorm, infoVars, driverVars, maskVars>>

parentLoop == IF loopStack = <<>> THEN 0 ELSE loopStack[Len(loopStack)]

\* the endId of the innermost active processRange
endId == IF loopStack = <<>> THEN getNumBlocks ELSE getIndex(li.latch[parentLoop])

\* Linearizer::run up to linearizeControl: buildBlockIndex, verifyBlockIndex
\* and the early exit on trivial regions
BuildBlockIndex ==
  /\ pc = "start"
  /\ LET order == buildBlockIndexOrder
     IN /\ relays' = order
        /\ blockIndex' = [b \in Blocks(fn) |-> getIndexIn(order, b)]
        /\ \E dump \in BOOLEAN :
             \* with the debug dump compiled in, needsFolding is called for
             \* every block and its assertion rejects a switch
             pc' = IF Len(order) <= 1 THEN "done"
                   ELSE IF dump /\ \E b \in Range(order) : Len(term[b]) > 2
                   THEN "abort" ELSE "lin"
  /\ UNCHANGED <<otherVars, inputVars, linVars, execVars, cur, loopStack>>

\* Linearizer::processBlock on a block of the current loop level:
\* emitBlock, foldPhis, processBranch
ProcessBlock ==
  /\ pc = "lin"
  /\ cur < endId
  /\ li.loopFor[getBlock(cur)] = parentLoop
  /\ \E nullDeref \in {"crash", "unnoticed"} :
       LET e == emitBlock([Cur EXCEPT !.nullDeref = nullDeref], cur)
           f == IF e.s.failed THEN e.s ELSE foldPhis(e.s, getBlock(cur))
           s == IF f.failed THEN f
                ELSE processBranch(f, getBlock(cur), e.next)
       IN /\ Commit(s)
          /\ pc' = IF s.failed THEN "abort"
                   ELSE IF s.undefined THEN "undefined" ELSE "lin"
  /\ cur' = cur + 1
  /\ UNCHANGED <<otherVars, inputVars, execVars, blockIndex, relays, loopStack>>

\* Linearizer::processLoop, entry: normalize the loop if it is divergent
EnterLoop ==
  /\ pc = "lin"
  /\ cur < endId
  /\ li.loopFor[getBlock(cur)] # parentLoop
  /\ LET loop == li.loopFor[getBlock(cur)]
         hr == getRelay(relay, cur)
         exitRelay == IF hr = NoRelay THEN NoRelay ELSE relay[hr]
         enter(s) ==
           /\ Commit(s)
           /\ pc' = IF s.failed \/ loop # getBlock(cur) THEN "abort"
                    ELSE "lin"
     IN /\ \E overrun \in {"unnoticed", "crash"} :
             enter(IF loop \in divLoops
                   THEN convertToSingleExitLoop(
                          [Cur EXCEPT !.overrun = overrun], loop, exitRelay)
                   ELSE Cur)
        /\ loopStack' = Append(loopStack, loop)
  /\ UNCHANGED <<otherVars, inputVars, execVars, blockIndex, relays, cur>>

\* faulty variant of FinishLoop: processLoop returns the index of the
\* latch, not the one behind it
FinishLoop_atLatch ==
  /\ pc = "lin"
  /\ loopStack # <<>>
  /\ cur = endId
  /\ LET loop == parentLoop
         e1 == emitBlock(Cur, cur)
         f == IF e1.s.failed THEN e1.s ELSE foldPhis(e1.s, li.latch[loop])
         e2 == IF f.failed THEN f ELSE emitBlock(f, getIndex(loop)).s
         s == IF e2.failed THEN e2 ELSE addUndefInputs(e2, loop)
     IN /\ Commit(s)
        /\ pc' = IF s.failed THEN "abort" ELSE "lin"
  /\ cur' = cur
  /\ loopStack' = SubSeq(loopStack, 1, Len(loopStack) - 1)
  /\ UNCHANGED <<otherVars, inputVars, execVars, blockIndex, relays>>

\* Linearizer::processLoop, after processRange: emit the latch, fold its
\* phis, emit the header again, add undef inputs
FinishLoop ==
  /\ pc = "lin"
  /\ loopStack # <<>>
  /\ cur = endId
  /\ LET loop == parentLoop
         e1 == emitBlock(Cur, cur)
         f == IF e1.s.failed THEN e1.s ELSE foldPhis(e1.s, li.latch[loop])
         e2 == IF f.failed THEN f ELSE emitBlock(f, getIndex(loop)).s
         s == IF e2.failed THEN e2 ELSE addUndefInputs(e2, loop)
     IN /\ Commit(s)
        /\ pc' = IF s.failed THEN "abort" ELSE "lin"
  /\ cur' = cur + 1
  /\ loopStack' = SubSeq(loopStack, 1, Len(loopStack) - 1)
  /\ UNCHANGED <<otherVars, inputVars, execVars, blockIndex, relays>>

\* Linearizer::run after linearizeControl: cleanup
Cleanup ==
  /\ pc = "lin"
  /\ loopStack = <<>>
  /\ cur = getNumBlocks
  /\ Commit(cleanup(Cur))
  /\ pc' = "done"
  /\ UNCHANGED <<otherVars, inputVars, execVars, blockIndex, relays, cur, loopStack>>

\* the vectorized function enters normalized loop L with all lanes live
StartLoop ==
  /\ pc = "done"
  /\ xpc = "idle"
  /\ \E L \in vecInfo0.divLoops :
       /\ xloop' = L
       /\ trk' = [t \in TrackersOf(L) |->
                    [l \in Lanes |-> IncomingInitial(t, li.latch[L])]]
  /\ trips' \in [Lanes -> 1..MaxTrip]
  /\ live' = Lanes
  /\ iter' = 0
  /\ xpc' = "run"
  /\ UNCHANGED <<otherVars, inputVars, linVars, pc, blockIndex, relays, cur, loopStack>>

\* one iteration of the loop: lanes leave, the latch computes the tracker
\* updates and takes its branch
Iterate ==
  /\ xpc = "run"
  /\ iter <= MaxTrip
  /\ LET k == iter + 1
     IN /\ iter' = k
        /\ live' = live \ Leaving(k)
        /\ trk' = [t \in DOMAIN trk |->
                     [l \in Lanes |->
                        Eval(IncomingFrom(t, li.latch[xloop]), l, k)]]
        /\ xpc' = IF LatchTarget(xloop, k) = xloop THEN "run" ELSE "exited"
  /\ UNCHANGED <<otherVars, inputVars, linVars, pc, blockIndex, relays, cur, loopStack,
                 xloop, trips>>

\* Linearizer::processLoop, its normalization step applied once more to a
\* loop the completed run has normalized
Renormalize ==
  /\ pc = "done"
  /\ xpc = "idle"
  /\ \E loop \in vecInfo0.divLoops \ renorm :
       LET hr == getRelay(relay, getIndex(loop))
           exitRelay == IF hr = NoRelay THEN NoRelay ELSE relay[hr]
           again(s) == /\ Commit(s)
                       /\ pc' = IF s.failed THEN "abort" ELSE "done"
       IN /\ \E overrun \in {"unnoticed", "crash"} :
               again(IF loop \in divLoops
                     THEN convertToSingleExitLoop(
                            [Cur EXCEPT !.overrun = overrun], loop, exitRelay)
                     ELSE Cur)
          /\ renorm' = renorm \cup {loop}
  /\ UNCHANGED <<inputVars, execVars, blockIndex, relays, cur, loopStack,
                 infoVars, driverVars, maskVars>>

Next ==
  \/ BuildBlockIndex
  \/ ProcessBlock
  \/ EnterLoop
  \/ FinishLoop
  \/ Cleanup
  \/ StartLoop
  \/ Iterate

Spec == Init /\ [][Next]_vars

NestSpec == NestInit /\ [][Next]_vars

ModuleSpec == ModuleInit /\ [][Next]_vars

DetourSpec == DetourInit /\ [][Next]_vars

TrackSpec == TrackInit /\ [][Next]_vars

\* runs after which loops are handed to the normalization step again
RenormSpec == Init /\ [][Next \/ Renormalize]_vars

\* the vectorized loop keeps running while its latch branches back
FairSpec == Spec /\ WF_vars(Iterate)

----------------------------------------------------------------------------
(* The shape store and the driver on their own *)

runVars == <<inputVars, linVars, execVars, pc, blockIndex, relays, cur,
             loopStack, renorm, maskVars>>

\* no run of the linearizer is under way
LinearizerIdle ==
  /\ fn = Catalogue[1]
  /\ predRev = FALSE
  /\ pc = "off"
  /\ li = LoopInfoOf(TermOf(fn))
  /\ blockIndex = <<>>
  /\ relays = <<>>
  /\ term = TermOf(fn)
  /\ termShape = <<>>
  /\ divLoops = {}
  /\ mandatory = {}
  /\ vecInfo0 = [termShape |-> <<>>, divLoops |-> {}]
  /\ dt = <<>>
  /\ relay = <<>>
  /\ edgeMask = <<>>
  /\ inst = <<>>
  /\ body = <<>>
  /\ valShape = <<>>
  /\ nextId = 1
  /\ termCond = <<>>
  /\ funcs = <<Kernel>>
  /\ parked = <<>>
  /\ foldLog = {}
  /\ trackLog = {}
  /\ promoteLog = {}
  /\ cur = 0
  /\ loopStack = <<>>
  /\ xloop = 0
  /\ xpc = "idle"
  /\ trips = <<>>
  /\ live = {}
  /\ iter = 0
  /\ trk = <<>>
  /\ renorm = {}

\* a client calls setVectorShape
SetVectorShape ==
  /\ \E v \in Values, shape \in ShapeKinds :
       InfoCommit(setVectorShape(Info, v, shape), "setVectorShape", v, shape)
  /\ UNCHANGED <<runVars, driverVars>>

\* a client calls setPinned
SetPinned ==
  /\ \E v \in Values : InfoCommit(setPinned(Info, v), "setPinned", v, "undef")
  /\ UNCHANGED <<runVars, driverVars>>

\* a client calls setPinnedShape
SetPinnedShape ==
  /\ \E v \in Values, shape \in ShapeKinds :
       InfoCommit(setPinnedShape(Info, v, shape), "setPinnedShape", v, shape)
  /\ UNCHANGED <<runVars, driverVars>>

InfoNext == SetVectorShape \/ SetPinned \/ SetPinnedShape

\* a fresh store, no run of the linearizer, no shape string
InfoStart ==
  /\ LinearizerIdle
  /\ MaskIdle
  /\ InfoInit
  /\ shapeText = <<>> /\ numArgs = 0 /\ parsed = [status |-> "pending"]

InfoSpec == InfoStart /\ [][InfoNext]_vars

\* the shape strings the driver is started with
DriverInit ==
  /\ LinearizerIdle
  /\ MaskIdle
  /\ InfoInit
  /\ shapeText \in Texts
  /\ numArgs \in 1..MaxArgs
  /\ parsed = [status |-> "pending"]

\* main decodes the -s option; the build has the assertions or not, and an
\* uninitialized unsigned holds some value
DecodeShapeOption ==
  /\ parsed = [status |-> "pending"]
  /\ \E asserts \in BOOLEAN, garbage \in {0, 2} :
       parsed' = decodeShapeOption(shapeText, numArgs,
                                   [asserts |-> asserts, garbage |-> garbage])
  /\ UNCHANGED <<shapeText, numArgs, runVars, infoVars>>

DriverSpec == DriverInit /\ [][DecodeShapeOption]_vars


\* a mask is given, no run of the linearizer is under way
MaskInit ==
  /\ LinearizerIdle
  /\ InfoInit
  /\ shapeText = <<>> /\ numArgs = 0 /\ parsed = [status |-> "pending"]
  /\ curMask \in Masks \cup {getAllFalse}
                     \cup {inferFromPredicate(P) : P \in Predicates \ {Null}}
  /\ known = "pending"

\* knownAllFalse is called on the mask, in a build with or without assertions
KnownAllFalse ==
  /\ known = "pending"
  /\ \E asserts \in BOOLEAN : known' \in knownAllFalse(curMask, asserts)
  /\ UNCHANGED <<curMask, inputVars, linVars, execVars, pc, blockIndex, relays,
                 cur, loopStack, renorm, infoVars, driverVars>>

MaskSpec == MaskInit /\ [][KnownAllFalse]_vars


----------------------------------------------------------------------------
(* processBlock on one join block.  The function is the chain 1 -> 2 -> 3  *)
(* with the join block 4 behind it; blocks 1..3 have been processed.  The  *)
(* phi of block 4 has the incoming blocks given by the sequence inc (its   *)
(* predecessors in the input), and the blocks of the set now branch to the *)
(* relay block of 4.                                                       *)

JoinInit ==
  /\ predRev \in BOOLEAN
  /\ \E inc \in UNION {[1..n -> 1..3] : n \in 1..3}, now \in SUBSET (1..3) :
       /\ now # {}
       /\ \A i, j \in DOMAIN inc : i # j => inc[i] # inc[j]
       /\ fn = [succ |-> [p \in 1..4 |->
                            (IF p < 3 THEN <<p + 1>> ELSE <<>>)
                            \o (IF p \in Range(inc) THEN <<4>> ELSE <<>>)],
                region |-> 1..4]
       /\ term = [p \in 1..4 |->
                    (IF p < 3 THEN <<p + 1>> ELSE <<>>)
                    \o (IF p \in now THEN <<0 - 4>> ELSE <<>>)]
       /\ inst = [i \in 1..5 |->
                    IF i = 5
                    THEN [op |-> "phi", name |-> "", parent |-> 4,
                          ops |-> [k \in DOMAIN inc |-> IV(inc[k])],
                          inc |-> inc]
                    ELSE [op |-> "def", name |-> "", parent |-> i,
                          ops |-> IF i = 4 THEN <<IV(5)>> ELSE <<>>,
                          inc |-> <<>>]]
       /\ edgeMask = [e \in {<<p, 4>> : p \in Range(inc)} |->
                        getExitMask(e[1], Len(fn.succ[e[1]]) - 1)]
  /\ li = LoopInfoOf(TermOf(fn))
  /\ pc = "lin"
  /\ relays = <<1, 2, 3, 4>>
  /\ blockIndex = [b \in 1..4 |-> b - 1]
  /\ cur = 3
  /\ loopStack = <<>>
  /\ relay = (3 :> NoRelay)
  /\ termShape = [b \in 1..4 |-> "uni"]
  /\ divLoops = {}
  /\ mandatory = {}
  /\ vecInfo0 = [termShape |-> termShape, divLoops |-> {}]
  /\ dt = ScratchIDoms(TermOf(fn))
  /\ body = <<<<1>>, <<2>>, <<3>>, <<5, 4>>>>
  /\ valShape = [i \in 1..5 |-> "varying"]
  /\ nextId = 6
  /\ termCond = <<>>
  /\ funcs = <<Kernel>>
  /\ parked = <<>>
  /\ foldLog = {} /\ trackLog = {} /\ promoteLog = {}
  /\ xloop = 0 /\ xpc = "idle" /\ trips = <<>> /\ live = {} /\ iter = 0
  /\ trk = <<>>
  /\ renorm = {}
  /\ InfoInit
  /\ shapeText = <<>> /\ numArgs = 0 /\ parsed = [status |-> "pending"]
  /\ MaskIdle

\* the join block is processed and the run is finished
JoinSpec == JoinInit /\ [][ProcessBlock \/ Cleanup]_vars

----------------------------------------------------------------------------
(* emitBlock on a block whose relay block holds instructions.  The         *)
(* function is the chain 1 -> 2 -> 3 -> 4; blocks 1..3 have been           *)
(* processed and block 3 branches to the relay block of 4, which holds the *)
(* instructions 5 .. 4 + n in this order.  Each of them has no operand or *)
(* one: the value of a block in front or of an instruction before it in    *)
(* the relay block.                                                        *)

\* greatest number of instructions in the relay block
MaxParked == 3

ParkInit ==
  /\ predRev \in BOOLEAN
  /\ fn = [succ |-> << <<2>>, <<3>>, <<4>>, <<>> >>, region |-> 1..4]
  /\ term = << <<2>>, <<3>>, <<0 - 4>>, <<>> >>
  /\ \E n \in 1..MaxParked :
       \E use \in [5..(4 + n) -> 0..(3 + n)] :
         /\ \A i \in 5..(4 + n) : use[i] < i /\ use[i] # 4
         /\ inst = [i \in 1..(4 + n) |->
                      [op |-> "def", name |-> "",
                       parent |-> IF i <= 4 THEN i ELSE 0 - 4,
                       ops |-> IF i <= 4 \/ use[i] = 0 THEN <<>>
                               ELSE <<IV(use[i])>>,
                       inc |-> <<>>]]
         /\ parked = ((0 - 4) :> [k \in 1..n |-> 4 + k])
         /\ valShape = [i \in 1..(4 + n) |-> "varying"]
         /\ nextId = 5 + n
  /\ edgeMask = <<>>
  /\ li = LoopInfoOf(TermOf(fn))
  /\ pc = "lin"
  /\ relays = <<1, 2, 3, 4>>
  /\ blockIndex = [b \in 1..4 |-> b - 1]
  /\ cur = 3
  /\ loopStack = <<>>
  /\ relay = (3 :> NoRelay)
  /\ termShape = [b \in 1..4 |-> "uni"]
  /\ divLoops = {}
  /\ mandatory = {}
  /\ vecInfo0 = [termShape |-> termShape, divLoops |-> {}]
  /\ dt = ScratchIDoms(TermOf(fn))
  /\ body = <<<<1>>, <<2>>, <<3>>, <<4>>>>
  /\ termCond = <<>>
  /\ funcs = <<Kernel>>
  /\ foldLog = {} /\ trackLog = {} /\ promoteLog = {}
  /\ xloop = 0 /\ xpc = "idle" /\ trips = <<>> /\ live = {} /\ iter = 0
  /\ trk = <<>>
  /\ renorm = {}
  /\ InfoInit
  /\ shapeText = <<>> /\ numArgs = 0 /\ parsed = [status |-> "pending"]
  /\ MaskIdle

\* the block is emitted and the run is finished
ParkSpec == ParkInit /\ [][ProcessBlock \/ Cleanup]_vars
----------------------------------------------------------------------------
(* Views of the state used by the properties *)

Done == pc = "done"

\* exit edges <<from, to>> of loop L in the current CFG
ExitEdges(L) ==
  {e \in li.blocks[L] \X UNION {Range(term[b]) : b \in li.blocks[L]} :
     e[2] \in Range(term[e[1]]) /\ ~contains(L, e[2])}

\* the phis of the in-region blocks
RegionPhis == {i \in DOMAIN inst : isPhi(Cur, i) /\ inst[i].parent \in fn.region}

\* the loop has exactly one exit edge and it leaves from the latch
SingleLatchExit(L) ==
  /\ Cardinality(ExitEdges(L)) = 1
  /\ \A e \in ExitEdges(L) : e[1] = li.latch[L]

\* the mask the linearizer recorded for incoming edge i of a folded phi
FoldedEdgeMask(r, i) ==
  IF <<r.blocks[i], r.block>> \in DOMAIN edgeMask
  THEN edgeMask[<<r.blocks[i], r.block>>] ELSE Null

\* value of v for a lane that reached the block of folded phi r over
\* incoming edge j alone: of the edge masks only that of edge j holds
RECURSIVE ChainValue(_, _, _)
ChainValue(r, v, j) ==
  LET at == {i \in 1..Len(r.chain) : v = IV(r.chain[i].id)}
      sel == r.chain[CHOOSE i \in at : TRUE].ops
  IN IF at = {} THEN v
     ELSE IF sel[1] = FoldedEdgeMask(r, j) THEN sel[2]
     ELSE ChainValue(r, sel[3], j)

\* the target ids on the relay chain from the node of id on, id included
RECURSIVE ChainFrom(_, _)
ChainFrom(ch, id) ==
  IF id \notin DOMAIN ch THEN {} ELSE {id} \cup ChainFrom(ch, ch[id])

\* processBlock handles in this step block b, which ends in a conditional
\* branch that needs folding, and the run goes on
FoldsBranchOf(b) ==
  /\ pc = "lin" /\ pc' = "lin"
  /\ cur < endId /\ cur' = cur + 1
  /\ getBlock(cur) = b
  /\ li.loopFor[b] = parentLoop
  /\ Len(term[b]) = 2
  /\ termShape[b] # "uni"

----------------------------------------------------------------------------
(* Properties *)

\* C1: when run has completed, the terminator of every in-region block is a
\* return, an unconditional branch or a conditional branch whose recorded
\* shape is uniform.
UniformTerminators ==
  Done => \A b \in fn.region : Len(term[b]) <= 1 \/ termShape[b] = "uni"

\* a run completed on a region with a varying branch and a divergent loop
\* whose latch ends in a conditional branch
UniformTerminatorsWitness ==
  /\ Done
  /\ \E b \in fn.region : vecInfo0.termShape[b] = "varying"
  /\ \E L \in vecInfo0.divLoops : Len(term[li.latch[L]]) = 2

BlockIndexContiguous ==
  pc # "start" =>
    /\ Len(relays) = Cardinality(fn.region)
    /\ Range(relays) = fn.region
    /\ \A b \in fn.region : /\ getIndex(b) \in 0..(Cardinality(fn.region) - 1)
                            /\ getBlock(getIndex(b)) = b
    /\ \A b \in Blocks(fn) \ fn.region : getIndex(b) = 0 - 1
    /\ \A L \in Loops :
         {getIndex(b) : b \in li.blocks[L]} = getIndex(L)..getIndex(li.latch[L])

\* the index was built for a loop nest
BlockIndexWitness ==
  /\ pc # "start"
  /\ \E L \in Loops : li.parent[L] # 0 /\ Cardinality(li.blocks[L]) >= 2

\* C4: after linearization the incoming blocks of every phi left in an
\* in-region block are exactly the predecessors of the phi's block.
PhiIncomingMatchesPreds ==
  Done => \A p \in RegionPhis :
            Range(inst[p].inc) = PredSet(term, inst[p].parent)

\* a run completed that folded a phi and left a tracker phi and a phi of
\* promoteDefinition behind
PhiIncomingWitness ==
  /\ Done
  /\ foldLog # {}
  /\ \E L \in Loops : TrackersOf(L) # {}
  /\ \E i \in RegionPhis :   \* a phi created by promoteDefinition
       inst[i].name = "" /\ i > 2 * NumBlocks(fn)

TrackerKeepsLeavingValue ==
  xpc # "idle" =>
    \A r \in trackLog : r.loop = xloop =>
      \A l \in Lanes \ live : trk[r.tracker][l] = <<"val", r.val, trips[l]>>

\* the loop has exited after a lane left in an earlier iteration than another
TrackerWitness ==
  /\ xpc = "exited"
  /\ \E r \in trackLog : r.loop = xloop
  /\ \E l \in Lanes : trips[l] < iter

\* C7: the latch of a normalized loop branches back to the header in an
\* iteration exactly if a lane is still live and leaves the loop otherwise;
\* the loop, once entered, exits, after as many iterations as the lane with
\* the most iterations needs.
LatchExitsWhenNoLaneLive ==
  /\ [][xpc = "run" /\ iter' # iter => ((xpc' = "run") <=> (live' # {}))]_vars
  /\ (xpc = "run") ~> (xpc = "exited" /\ live = {} /\ iter = Max({trips[l] : l \in Lanes}))

\* the loop exited after more than one iteration
LatchExitWitness ==
  /\ xpc = "exited"
  /\ iter >= 2
  /\ \E l \in Lanes : trips[l] = 1

\* C8: a phi that foldPhis replaced has become the chain d = v_1,
\* d = select(edgeMask(pred_i, B), v_i, d) for the further incoming values:
\* a lane that came over one incoming edge alone gets that edge's value,
\* the chain has the phi's shape and the phi is gone from the block.
FoldedPhiIsSelectChain ==
  \A r \in foldLog :
    LET n == Len(r.vals) IN
    /\ Len(r.chain) = n - 1
    /\ \A i \in 1..(n - 1) :
         /\ r.chain[i].ops =
              <<FoldedEdgeMask(r, i + 1), r.vals[i + 1],
                IF i = 1 THEN r.vals[1] ELSE IV(r.chain[i - 1].id)>>
         /\ r.chain[i].id \in DOMAIN inst
         /\ inst[r.chain[i].id].op = "select"
         /\ inst[r.chain[i].id].parent = r.block
         /\ valShape[r.chain[i].id] = r.shape
    /\ r.result = IF n = 1 THEN r.vals[1] ELSE IV(r.chain[n - 1].id)
    /\ \A j \in 1..n : ChainValue(r, r.result, j) = r.vals[j]
    /\ r.phi \notin DOMAIN inst
    /\ r.phi \notin Range(body[r.block])

\* a phi with three incoming values was folded
FoldedPhiWitness ==
  \E r \in foldLog : Len(r.vals) >= 3 /\ r.shape = "varying"

\* C9, as stated: for a kill exit of a divergent loop the normalization
\* creates no tracker phi and no tracker update for the value live across
\* the exit.
KillExitsUntracked ==
  \A L \in vecInfo0.divLoops : \A E \in ExitingBlocksOf(fn, L) :
    (/\ vecInfo0.termShape[E] = "uni"
     /\ \A x \in Range(fn.succ[E]) : ~contains(L, x) => x \notin mandatory) =>
      ~\E i \in DOMAIN inst : /\ inst[i].name = "update"
                              /\ inst[i].parent = li.latch[L]
                              /\ inst[i].ops[2] = IV(E)

\* C10, as stated: after the transform no instruction outside a divergent
\* loop uses a value of the loop that was live across an exit that is not a
\* kill exit; the uses go to the tracker state.
OutsideUsesGoThroughTrackers ==
  Done =>
    \A L \in vecInfo0.divLoops : \A E \in ExitingBlocksOf(fn, L) :
      (vecInfo0.termShape[E] = "varying"
       /\ \E x \in Range(fn.succ[E]) : ~contains(L, x) /\ x \in mandatory)
      => \A i \in DOMAIN inst :
           ~contains(L, inst[i].parent) => IV(E) \notin Range(inst[i].ops)

\* C11, as stated: after a run on a region whose conditional branches are
\* all uniform and that has no divergent loop, every in-region block has the
\* successor list and the phis it had before.
UniformRegionUnchanged ==
  (/\ Done
   /\ \A b \in fn.region : vecInfo0.termShape[b] = "uni"
   /\ vecInfo0.divLoops = {}) =>
    /\ \A b \in fn.region : term[b] = fn.succ[b]
    /\ {i \in DOMAIN inst : inst[i].op = "phi"}
         = {i \in DOMAIN InitialInst : InitialInst[i].op = "phi"}
    /\ \A i \in DOMAIN InitialInst :
         InitialInst[i].op = "phi" => inst[i] = InitialInst[i]
    /\ body = InitialBody

\* C11, amended: after such a run every in-region block has the successor
\* list it had before, same targets in the same operand order, except that
\* a branch whose operands all name one block has become an unconditional
\* branch to that block; the phis are the ones it had before.
UniformRegionSimplifiedOnly ==
  LET Simplified(succs) ==
        IF Len(succs) > 1 /\ Cardinality(Range(succs)) = 1
        THEN <<succs[1]>> ELSE succs
  IN (/\ Done
      /\ \A b \in fn.region : vecInfo0.termShape[b] = "uni"
      /\ vecInfo0.divLoops = {}) =>
       /\ \A b \in fn.region : term[b] = Simplified(fn.succ[b])
       /\ {i \in DOMAIN inst : inst[i].op = "phi"}
            = {i \in DOMAIN InitialInst : InitialInst[i].op = "phi"}
       /\ \A i \in DOMAIN InitialInst :
            InitialInst[i].op = "phi" => inst[i] = InitialInst[i]
       /\ body = InitialBody

\* a run on an all-uniform region with a loop and a two-way branch completed
UniformRegionWitness ==
  /\ Done
  /\ \A b \in fn.region : vecInfo0.termShape[b] = "uni"
  /\ vecInfo0.divLoops = {}
  /\ Loops # {}
  /\ \E b \in fn.region : Len(term[b]) = 2 /\ term[b][1] # term[b][2]
  /\ edgeMask # <<>>

\* C14, as stated: when run has completed, every block of the function
\* outside the region has the terminator, the instructions and the recorded
\* shapes it had before the run.
OutOfRegionUntouched ==
  Done =>
    \A b \in Blocks(fn) \ fn.region :
      /\ term[b] = fn.succ[b]
      /\ termShape[b] = vecInfo0.termShape[b]
      /\ body[b] = InitialBody[b]
      /\ \A i \in Range(body[b]) :
           /\ inst[i] = InitialInst[i]
           /\ valShape[i] = InitialShape(vecInfo0.termShape, mandatory)[i]

\* C12: loop normalization is idempotent: when the normalization step of
\* processLoop is applied to a loop that a completed run has normalized,
\* no block, terminator, phi, shape, relay or tracker changes and nothing
\* fails.
NormalizationIdempotent ==
  [][renorm' # renorm => (pc' = "done" /\ UNCHANGED <<linVars, execVars>>)]_vars

\* the normalization step was applied again to a normalized loop that has
\* tracker phis and a single exit from its latch on rv_any
RenormalizedWitness ==
  \E L \in renorm :
    /\ SingleLatchExit(L)
    /\ TrackersOf(L) # {}
    /\ li.latch[L] \in DOMAIN termCond
    /\ L \notin divLoops

\* C13, as stated: a call promoteDefinition(v, defIdx, destIdx) with
\* defIdx < destIdx hands no block index above destIdx to getBlock, visits
\* the blocks up to destIdx, touches no defs slot outside 0..destIdx-defIdx
\* and returns the slot of destIdx; a call with defIdx = destIdx returns v
\* and creates no phi.
PromoteStaysInSpan ==
  \A r \in promoteLog :
    /\ r.defBlockId < r.destBlockId =>
         /\ r.last = r.destBlockId
         /\ r.slots \subseteq 0..(r.destBlockId - r.defBlockId)
         /\ r.ret = r.destBlockId - r.defBlockId
    /\ r.defBlockId = r.destBlockId => (r.val = r.v /\ r.created = 0)

SwitchRejectedAtEntry ==
  (\E b \in fn.region : Len(fn.succ[b]) > 2) =>
    /\ pc \in {"start", "abort"}
    /\ term = TermOf(fn)
    /\ termShape = vecInfo0.termShape
    /\ edgeMask = <<>>
    /\ inst = InitialInst
    /\ body = InitialBody
    /\ dt = ScratchIDoms(TermOf(fn))

DecodeInvertsEncode ==
  parsed.status # "pending" =>
    \A sh \in EncodableShapes :
      shapeText = encodeShape(sh)
        => (parsed.status = "ok" /\ parsed.argShapes[1] = sh)

\* C19, as stated: the driver fails on every shape string that does not
\* match the documented grammar or names more shapes than the kernel has
\* arguments.
IllFormedRejected ==
  (parsed.status # "pending" /\ ~WellFormed(shapeText, numArgs))
    => parsed.status = "abort"

\* C21: every relay block is destroyed again: when run has returned, no
\* relay node is left, no relay block remains in the function and no
\* terminator has a relay block as a successor; while the run goes on,
\* the relay blocks that exist stand for blocks not emitted yet or for the
\* header of a loop being processed.
RelayBlocksAllDestroyed ==
  /\ Done => /\ DOMAIN relay = {}
             /\ \A b \in Blocks(fn) : \A t \in Range(term[b]) : t > 0
  /\ pc = "lin" =>
       /\ \A id \in DOMAIN relay :
            id >= cur \/ getBlock(id) \in Range(loopStack)
       /\ \A b \in Blocks(fn) : \A t \in Range(term[b]) :
            t < 0 => getIndex(0 - t) \in DOMAIN relay

\* a run has returned in which relay blocks were created for a folded
\* branch and for the exits of a normalized loop
RelayBlocksWitness ==
  /\ Done
  /\ \E b \in fn.region : vecInfo0.termShape[b] = "varying"
                          /\ Cardinality(Range(fn.succ[b])) = 2
  /\ vecInfo0.divLoops # {}
  /\ edgeMask # <<>>

\* C22: the block index is a topological order of the forward edges of the
\* region: for every edge P -> B between in-region blocks that is not the
\* back edge of a loop (latch -> header), idx(P) < idx(B).
BlockIndexTopological ==
  pc # "start" =>
    \A P \in fn.region : \A B \in Range(fn.succ[P]) \cap fn.region :
      (B \in Loops /\ li.latch[B] = P) \/ getIndex(P) < getIndex(B)

\* the index was built for a region with a loop whose function order is
\* not a topological order
BlockIndexTopologicalWitness ==
  /\ pc # "start"
  /\ Loops # {}
  /\ \E P \in fn.region : \E B \in Range(fn.succ[P]) \cap fn.region :
       B < P /\ getIndex(P) < getIndex(B)

FoldSetsSecondDominator ==
  [][\A b \in fn.region :
       FoldsBranchOf(b) =>
         LET firstId == Min({getIndex(term[b][1]), getIndex(term[b][2])})
             secondId == Max({getIndex(term[b][1]), getIndex(term[b][2])})
         IN (/\ dominates(dt, b, getBlock(secondId))
             /\ getRelay(relay, secondId) = NoRelay)
            => dt'[getBlock(secondId)] = getBlock(firstId)]_vars

\* C27, as stated: the live-out operand of every tracker update select in
\* the latch of a normalized loop is defined in a block that dominates the
\* latch; a live-out value whose defining block does not dominate the latch
\* enters the select as its promoted definition, not as the raw value.
TrackerUpdateOperandDominatesLatch ==
  Done =>
    \A i \in DOMAIN inst :
      (inst[i].op = "select" /\ inst[i].name = "update") =>
        LET val == inst[i].ops[2]
        IN IsInst(Cur, val) =>
             dominates(dt, inst[val[2]].parent, inst[i].parent)

PromotedPhiIncomings ==
  \A r \in promoteLog : \A ph \in r.phis :
    LET forward == SelectSeq(ph.preds, LAMBDA P : getIndex(P) < ph.blockId)
        reaching(P) ==
          IF getIndex(P) < r.defBlockId THEN Undef
          ELSE IF ph.defs[getIndex(P) - r.defBlockId + 1] = Null THEN Undef
          ELSE ph.defs[getIndex(P) - r.defBlockId + 1]
    IN /\ ph.inc = forward
       /\ ph.ops = [k \in DOMAIN forward |-> reaching(forward[k])]

\* promoteDefinition inserted a phi that has an undef incoming value and a
\* defined one, with the predecessors enumerated in descending order, and
\* it went over a span that holds a block with a predecessor over a back
\* edge
PromotedPhiWitness ==
  /\ predRev
  /\ \E r \in promoteLog :
       /\ \E ph \in r.phis :
            /\ Undef \in Range(ph.ops)
            /\ r.v \in Range(ph.ops)
            /\ Len(ph.inc) >= 2
       /\ \E id \in (r.defBlockId + 1)..r.destBlockId :
            \E P \in PredSet(TermOf(fn), getBlock(id)) : getIndex(P) >= id

\* C29, as stated: after processBranch(B), for each successor index i of B's
\* branch the mask recorded for the edge from B to that successor is
\* maskAnalysis.getExitMask(B, i), whether or not the successors are
\* exchanged into ascending index order; foldPhis reads the masks recorded.
EdgeMaskIsExitMaskOfIndex ==
  [][\A b \in fn.region :
       (/\ pc = "lin" /\ cur < endId /\ cur' = cur + 1
        /\ getBlock(cur) = b
        /\ li.loopFor[b] = parentLoop
        /\ pc' = "lin")
       => LET succs == emitBlock(Cur, cur).s.term[b]
          IN Len(succs) \in {1, 2} =>
               \A i \in DOMAIN succs :
                 /\ <<b, succs[i]>> \in DOMAIN edgeMask'
                 /\ edgeMask'[<<b, succs[i]>>] = getExitMask(b, i - 1)]_vars

\* the step of processLoop that normalizes the divergent loop L
NormalizesLoop(L) ==
  /\ pc = "lin" /\ pc' = "lin"
  /\ cur < endId /\ cur' = cur
  /\ li.loopFor[getBlock(cur)] # parentLoop
  /\ li.loopFor[getBlock(cur)] = L
  /\ L \in divLoops
  /\ loopStack' = Append(loopStack, L)

\* the ids on the exit chain of L: the pending targets inherited at the
\* header and the exit blocks of L
ExitChainIds(L) ==
  LET hr == getRelay(relay, getIndex(L))
      inherited == IF hr = NoRelay THEN {} ELSE ChainFrom(relay, relay[hr])
  IN inherited \cup {getIndex(X) : X \in Range(getExitBlocks(term, L))}

EmitBlockRelinksAndSetsIDom ==
  [][LET nearestCommon(D, d, P) ==
           /\ \A p \in P : dominates(D, d, p)
           /\ \A c \in DOMAIN D :
                (\A p \in P : dominates(D, c, p)) => dominates(D, c, d)
         \* emitBlock(id) took the state before to the state after
         emitted(before, id, after) ==
           LET target == getBlock(id)
               preds == PredSet(after.term, target)
           IN /\ \A b \in DOMAIN before.term :
                   \A i \in DOMAIN before.term[b] :
                     after.term[b][i] =
                       IF before.term[b][i] = relayBlockOf(id) THEN target
                       ELSE before.term[b][i]
              /\ id \notin DOMAIN after.relay
              /\ preds # {} =>
                   nearestCommon(after.dt, after.dt[target], preds)
     IN /\ (/\ pc = "lin" /\ pc' = "lin" /\ cur < endId /\ cur' = cur + 1
            /\ li.loopFor[getBlock(cur)] = parentLoop)
           => emitted(Cur, cur, emitBlock(Cur, cur).s)
        /\ (/\ pc = "lin" /\ pc' = "lin" /\ loopStack # <<>> /\ cur = endId
            /\ cur' = cur + 1)
           => LET e1 == emitBlock(Cur, cur).s
                  f == foldPhis(e1, li.latch[parentLoop])
              IN /\ emitted(Cur, cur, e1)
                 /\ emitted(f, getIndex(parentLoop),
                            [term |-> term', relay |-> relay',
                             dt |-> dt'])]_vars

\* the header of a loop was emitted again after the latch, no relay block
\* existing for it, and a block was emitted whose relay block was the target
\* of several branches
EmitBlockWitness ==
  /\ pc = "lin"
  /\ \E L \in Loops :
       /\ cur = getIndex(li.latch[L]) + 1
       /\ L \notin Range(loopStack)
       /\ PredSet(term, L) = PredSet(TermOf(fn), L)
       /\ Cardinality(PredSet(term, L)) = 2
  /\ \E b \in fn.region :
       /\ getIndex(b) < cur
       /\ Cardinality(PredSet(term, b)) >= 2
       /\ dt[b] # ScratchIDom(TermOf(fn), b)

\* C31: however many divergent loops were normalized, the module holds one
\* function named rv_any, which takes one boolean, returns a boolean and has
\* external linkage and the attributes of the reduction function; every call
\* the linearizer created calls it and has the shape uniform.
ReductionFuncDeclaredOnce ==
  LET named == {i \in DOMAIN funcs : funcs[i].name = "rv_any"}
      calls == {i \in DOMAIN inst : inst[i].op = "call"}
  IN /\ Cardinality(named) <= 1
     /\ calls # {} =>
          /\ Cardinality(named) = 1
          /\ \A i \in named : funcs[i] = ReductionDecl("rv_any")
          /\ \A i \in DOMAIN funcs \ named : funcs[i] = Kernel
          /\ \A c \in calls : /\ inst[c].name = "rv_any"
                              /\ inst[c].ops # <<>>
                              /\ valShape[c] = "uni"

\* two loops of a function were normalized, in a module that held no
\* function named rv_any before
ReductionFuncWitness ==
  /\ Done
  /\ Cardinality({i \in DOMAIN inst : inst[i].op = "call"}) >= 2
  /\ funcs = <<Kernel, ReductionDecl("rv_any")>>
  /\ Cardinality(vecInfo0.divLoops) >= 2

\* C32, as stated: Mask::knownAllFalse returns true for every mask whose
\* active vector length is the constant 0 and for every mask whose predicate
\* is a constant zero, with or without an active vector length, returns
\* false for every other mask, and never faults; it returns true for
\* Mask::getAllFalse.
KnownAllFalseDecides ==
  known # "pending" =>
    LET zeroAVL == curMask.AVL = <<"constint", 0>>
        zeroPred == /\ curMask.Pred # Null
                    /\ curMask.Pred \in Constants
                    /\ isNullValue(curMask.Pred)
    IN /\ known # "fault"
       /\ known = IF zeroAVL \/ zeroPred THEN "true" ELSE "false"
       /\ curMask = getAllFalse => known = "true"

\* C33: the phis of a loop header that have an incoming value from the
\* latch of the loop are never folded into select chains, and when the
\* transform is done each loop header still has them with the latch as an
\* incoming block.
LoopCarriedPhisSurvive ==
  /\ \A r \in foldLog :
       r.block \in Loops => li.latch[r.block] \notin Range(r.blocks)
  /\ Done =>
       \A L \in Loops :
         /\ PhiId(L) \in DOMAIN inst
         /\ isPhi(Cur, PhiId(L))
         /\ body[L] # <<>> /\ body[L][1] = PhiId(L)
         /\ li.latch[L] \in Range(inst[PhiId(L)].inc)

\* C34: targets pending on the relay chain when a loop is entered are not
\* lost at the latch of the loop: after the transform every block of the
\* region that was reachable from the region entry before it still has a
\* predecessor and is reachable from the entry, for divergent and
\* non-divergent loops alike.
PendingTargetsNotLost ==
  pc \in {"lin", "done"} /\ getNumBlocks > 1 =>
    LET entry == getBlock(0)
        before == ReachFrom(TermOf(fn), {entry}, {entry}, 0) \cap fn.region
        after == ReachFrom(term, {entry}, {entry}, 0)
        pending(b) ==
          \E h \in DOMAIN relay :
            /\ PredSet(term, relayBlockOf(h)) # {}
            /\ getIndex(b) \in ChainFrom(relay, h)
    IN \A b \in before \ {entry} :
         /\ PredSet(term, b) # {} \/ pending(b)
         /\ Done => b \in after

\* C37: processBranch on a conditional branch with uniform condition leaves
\* the dominator tree unchanged: the immediate dominator of neither
\* successor is modified by the call, whatever the relay state.
UniformBranchKeepsDominators ==
  [][\A b \in fn.region :
       /\ pc = "lin" /\ pc' = "lin"
       /\ cur < endId /\ cur' = cur + 1
       /\ getBlock(cur) = b
       /\ li.loopFor[b] = parentLoop
       /\ Len(term[b]) = 2
       /\ termShape[b] = "uni"
       => \A t \in Range(term[b]) : dt'[t] = dt[t]]_vars

\* C38: within one loop normalization there is at most one tracker phi per
\* live-out instruction: requests for the same instruction from several
\* exits give the same phi of the header; its incoming values are undef
\* from the pre-header and the latest update from the latch, and its shape
\* is varying.
OneTrackerPerLiveOut ==
  \A r \in trackLog :
    LET mine == {q \in trackLog : q.loop = r.loop /\ q.tracker = r.tracker}
        latest == CHOOSE q \in mine : \A o \in mine : o.update <= q.update
    IN /\ \A q \in trackLog :
            q.loop = r.loop => (q.val = r.val <=> q.tracker = r.tracker)
       /\ Cardinality(TrackersOf(r.loop))
            = Cardinality({q.val : q \in {o \in trackLog : o.loop = r.loop}})
       /\ r.tracker \in TrackersOf(r.loop)
       /\ r.tracker \in Range(body[r.loop])
       /\ valShape[r.tracker] = "varying"
       /\ Len(inst[r.tracker].inc) = 2
       /\ IncomingFrom(r.tracker, li.latch[r.loop]) = IV(latest.update)
       /\ IncomingInitial(r.tracker, li.latch[r.loop]) = Undef
       /\ \A i \in 1..2 :
            inst[r.tracker].inc[i] # li.latch[r.loop] =>
              /\ inst[r.tracker].inc[i] \notin li.blocks[r.loop]
              /\ r.loop \in Range(TermOf(fn)[inst[r.tracker].inc[i]])

OneTrackerWitness ==
  /\ Done
  /\ \E r, q \in trackLog :
       /\ r.loop = q.loop /\ r.exit # q.exit
       /\ r.val = q.val /\ r.tracker = q.tracker
       /\ r.update < q.update
       /\ IncomingFrom(r.tracker, li.latch[r.loop]) = IV(q.update)
       /\ inst[q.update].ops[3] = IV(r.update)

\* C35: linearizeControl terminates and emits every block of the region:
\* every step of it moves the block index up by one, or enters the loop at
\* the index and keeps it, so the index never moves down and never passes
\* getNumBlocks(); a block that is not a latch is emitted and gets
\* processBranch applied in the one step that passes its index, a latch is
\* emitted and the header after it in the one step that passes the index of
\* the latch, and the run is done only at the index getNumBlocks().
LinearizeControlAscends ==
  [][pc = "lin" =>
       LET b == getBlock(cur) IN
       \/ /\ cur < endId /\ li.loopFor[b] = parentLoop
          /\ cur' = cur + 1 /\ cur' <= getNumBlocks
          /\ loopStack' = loopStack
          /\ pc' # "done"
          /\ pc' = "lin" => \A t \in Range(term'[b]) : t < 0
       \/ /\ cur < endId /\ li.loopFor[b] # parentLoop
          /\ cur' = cur /\ loopStack' = Append(loopStack, li.loopFor[b])
          /\ li.loopFor[b] \notin Range(loopStack)
          /\ pc' # "done"
          /\ pc' = "lin" => li.loopFor[b] = b
       \/ /\ loopStack # <<>> /\ cur = endId
          /\ b = li.latch[parentLoop]
          /\ cur' = cur + 1 /\ cur' <= getNumBlocks
          /\ loopStack' = SubSeq(loopStack, 1, Len(loopStack) - 1)
          /\ pc' # "done"
          /\ pc' = "lin" => parentLoop \in Range(term'[b])
       \/ /\ loopStack = <<>> /\ cur = getNumBlocks
          /\ cur' = cur /\ pc' = "done"]_vars

LinearizeControlWitness ==
  /\ Done
  /\ cur = getNumBlocks
  /\ Cardinality(Loops) >= 2
  /\ \E L \in Loops : li.latch[L] # L

====
